---- MODULE Spec2Model ----
(***************************************************************************)
(* Verification model of the JVM-bytecode analyzer of jpamb_group30:       *)
(*   - the interval lattice   (src/abstract_interpreter/interval_abstraction.py) *)
(*   - the abstract interpreter and its worklist driver                    *)
(*                            (src/group30/abstract_interpreter.py)        *)
(*   - the concrete interpreter (src/interpreter/interpreter.py)           *)
(* A run of the model picks one method of a small catalogue of bytecode    *)
(* methods together with a concrete input, runs abstract_interpretation    *)
(* pass by pass and then steps the concrete interpreter on the input.      *)
(***************************************************************************)
EXTENDS Integers, Sequences, FiniteSets, TLC

(***************************************************************************)
(* Bounds of the model.                                                    *)
(***************************************************************************)
\* cap on the number of concrete steps of one run (the driver's cap is 10^5);
\* it exceeds the length of every terminating run of the catalogue
MaxConcreteSteps == 120

\* largest absolute value of an integer argument handed to the concrete run
MaxInput == 2

\* largest number of opcodes before the final Return of a generated method
MaxBody == 2

\* the depth of nested build calls at which the interpreter raises
\* RecursionError (its limit is 1000 frames)
MaxDepth == 8

\* largest number of sources handed to fair_product
MaxSources == 2

\* largest length of a finite source of fair_product
MaxSourceLen == 2

\* the round after which the enumeration of an infinite product is cut off
MaxRadius == 3

\* largest absolute value of an integer bound of an interval, and of an
\* element of an integer set, handed to a unit run
MaxAbs == 2

(***************************************************************************)
(* Program constants.                                                      *)
(***************************************************************************)
\* MAX_STEPS of abstract_interpretation
MAX_STEPS == 100

\* sys.maxsize.  CPython's value is 2^63-1; the model scales it down so that
\* the corner products of Binary Mul stay inside TLC's integers (46340 is the
\* largest integer whose square is below 2^31).  It only has to exceed every
\* value the catalogue methods compute.
maxsize == 46340

\* the null payload of a reference (Python None); heap indices are >= 0
None == -1

(***************************************************************************)
(* int | Infinity  (interval_abstraction.py, class Infinity).              *)
(* A bound is a record: inf = 0 for an int n, inf = 1 for POS_INF,         *)
(* inf = -1 for NEG_INF.  inf = 2 stands for a raised exception            *)
(* (ValueError, TypeError, ZeroDivisionError) and is absorbing.            *)
(***************************************************************************)
Fin(n) == [inf |-> 0, n |-> n]

POS_INF == [inf |-> 1, n |-> 0]

NEG_INF == [inf |-> -1, n |-> 0]

Raised == [inf |-> 2, n |-> 0]

IsInf(a) == a.inf = 1 \/ a.inf = -1

\* Infinity.__lt__ / int.__lt__ and the reflected comparisons
BLt(a, b) ==
    IF a.inf = 0 /\ b.inf = 0 THEN a.n < b.n
    ELSE IF a.inf # 0 /\ b.inf # 0 THEN a.inf = -1 /\ b.inf = 1
    ELSE IF a.inf # 0 THEN a.inf = -1
    ELSE b.inf = 1

\* Infinity.__eq__
BEq(a, b) == a.inf = b.inf /\ (a.inf = 0 => a.n = b.n)

\* Infinity.__le__
BLe(a, b) == BEq(a, b) \/ BLt(a, b)

\* Infinity.__gt__
BGt(a, b) == BLt(b, a)

\* Infinity.__ge__
BGe(a, b) == BEq(a, b) \/ BGt(a, b)

\* builtin min(a, b): the first argument unless the second is smaller
BMin(a, b) == IF BLt(b, a) THEN b ELSE a

\* builtin max(a, b): the first argument unless the second is larger
BMax(a, b) == IF BGt(b, a) THEN b ELSE a

\* Infinity.__add__ / __radd__
BAdd(a, b) ==
    IF a.inf = 2 \/ b.inf = 2 THEN Raised
    ELSE IF a.inf = 0 /\ b.inf = 0 THEN Fin(a.n + b.n)
    ELSE IF a.inf # 0 /\ b.inf # 0 THEN (IF a.inf # b.inf THEN Raised ELSE a)
    ELSE IF a.inf # 0 THEN a
    ELSE b

\* Infinity.__neg__
BNeg(a) ==
    IF a.inf = 2 THEN Raised
    ELSE IF a.inf = 0 THEN Fin(0 - a.n)
    ELSE [inf |-> 0 - a.inf, n |-> 0]

\* Infinity.__sub__ / __rsub__
BSub(a, b) ==
    IF a.inf = 2 \/ b.inf = 2 THEN Raised
    ELSE IF a.inf = 0 /\ b.inf = 0 THEN Fin(a.n - b.n)
    ELSE IF a.inf # 0 /\ b.inf # 0 THEN (IF a.inf = b.inf THEN Raised ELSE a)
    ELSE IF a.inf # 0 THEN a
    ELSE BNeg(b)

\* Infinity.__mul__ / __rmul__
BMul(a, b) ==
    IF a.inf = 2 \/ b.inf = 2 THEN Raised
    ELSE IF a.inf = 0 /\ b.inf = 0 THEN Fin(a.n * b.n)
    ELSE IF a.inf # 0 /\ b.inf # 0
         THEN (IF a.inf = b.inf THEN POS_INF ELSE NEG_INF)
    ELSE IF a.inf # 0
         THEN (IF b.n = 0 THEN Fin(0)
               ELSE IF b.n > 0 THEN a ELSE BNeg(a))
    ELSE (IF a.n = 0 THEN Fin(0)
          ELSE IF a.n > 0 THEN b ELSE BNeg(b))

\* Python's int // int for a non-zero divisor: floor division
FloorDiv(x, y) == IF y > 0 THEN x \div y ELSE (0 - x) \div (0 - y)

\* Python's int % int for a non-zero divisor: x - floor(x / y) * y
FloorMod(x, y) == x - FloorDiv(x, y) * y

\* Infinity.__floordiv__ / __rfloordiv__ / int.__floordiv__
BFloorDiv(a, b) ==
    IF a.inf = 2 \/ b.inf = 2 THEN Raised
    ELSE IF a.inf = 0 /\ b.inf = 0
         THEN (IF b.n = 0 THEN Raised ELSE Fin(FloorDiv(a.n, b.n)))
    ELSE IF b.inf # 0 THEN Fin(0)
    ELSE (IF b.n = 0 THEN Raised
          ELSE IF b.n > 0 THEN a ELSE BNeg(a))

\* builtin abs(): Infinity defines no __abs__, so abs(Infinity) raises
BAbs(a) ==
    IF a.inf # 0 THEN Raised
    ELSE IF a.n < 0 THEN Fin(0 - a.n) ELSE a

(***************************************************************************)
(* Iteration order of frozenset(sorted(vals)) (Interval.init_K).  CPython  *)
(* stores a set of at most four ints in a table of eight slots, the slot   *)
(* of k being hash(k) & 7 with hash(-1) = -2 and hash(k) = k otherwise,    *)
(* and iterates the table in slot order.  The constant sets of the         *)
(* catalogue have no two elements in the same slot.                        *)
(***************************************************************************)
HashSlot(k) == IF k = -1 THEN 6 ELSE k % 8

RECURSIVE SetIter(_)
SetIter(Ks) ==
    IF Ks = {} THEN << >>
    ELSE LET k == CHOOSE x \in Ks : \A y \in Ks : HashSlot(x) <= HashSlot(y)
         IN  << k >> \o SetIter(Ks \ {k})

(***************************************************************************)
(* class Interval.                                                         *)
(***************************************************************************)
\* Interval(lower, upper): the dataclass constructor with its defaults
Interval(lo, hi) == [lower |-> lo, upper |-> hi, K |-> {}, use_widening |-> TRUE]

\* Interval(lower, upper) followed by init_K(vals)
init_K(iv, vals) == [iv EXCEPT !.K = vals]

\* Interval.empty
IntervalEmpty == Interval(POS_INF, NEG_INF)

\* Interval.universal
IntervalUniversal == Interval(NEG_INF, POS_INF)

\* Interval.is_empty
is_empty(iv) == BGt(iv.lower, iv.upper)

\* Interval.__contains__
Contains(iv, member) ==
    IF is_empty(iv) THEN FALSE
    ELSE BLe(iv.lower, member) /\ BLe(member, iv.upper)

\* Interval.__le__
IntervalLe(a, b) ==
    IF is_empty(a) THEN TRUE
    ELSE IF is_empty(b) THEN FALSE
    ELSE BGe(a.lower, b.lower) /\ BLe(a.upper, b.upper)

\* min_K_J of Interval.widening: walks Ks in iteration order
RECURSIVE min_K_J_loop(_, _, _)
min_K_J_loop(m, it, ret) ==
    IF it = << >> THEN ret
    ELSE IF BGt(Fin(Head(it)), m) THEN ret
    ELSE min_K_J_loop(m, Tail(it), Fin(Head(it)))

min_K_J(a, b, Ks) ==
    IF a.inf = -1 THEN NEG_INF
    ELSE IF b.inf = -1 THEN NEG_INF
    ELSE IF Ks = {} THEN NEG_INF
    ELSE min_K_J_loop(BMin(a, b), SetIter(Ks), NEG_INF)

\* max_K_J of Interval.widening
RECURSIVE max_K_J_loop(_, _)
max_K_J_loop(m, it) ==
    IF it = << >> THEN POS_INF
    ELSE IF BGe(Fin(Head(it)), m) THEN Fin(Head(it))
    ELSE max_K_J_loop(m, Tail(it))

max_K_J(a, b, Ks) ==
    IF a.inf = 1 THEN POS_INF
    ELSE IF b.inf = 1 THEN POS_INF
    ELSE IF Ks = {} THEN POS_INF
    ELSE max_K_J_loop(BMax(a, b), SetIter(Ks))

\* the join without widening: the hull of the two intervals
wideningPlainJoin(self, other) ==
    IF is_empty(self) THEN other
    ELSE IF is_empty(other) THEN self
    ELSE [lower |-> BMin(self.lower, other.lower),
          upper |-> BMax(self.upper, other.upper),
          K |-> self.K, use_widening |-> TRUE]

\* Interval.widening
widening(self, other) ==
    IF is_empty(self) THEN other
    ELSE IF is_empty(other) THEN self
    ELSE [lower |-> min_K_J(self.lower, other.lower, self.K),
          upper |-> max_K_J(self.upper, other.upper, self.K),
          K |-> self.K, use_widening |-> TRUE]

\* Interval.__or__
IntervalOr(self, other) ==
    IF self.use_widening THEN widening(self, other)
    ELSE IF is_empty(self) THEN other
    ELSE IF is_empty(other) THEN self
    ELSE [lower |-> BMin(self.lower, other.lower),
          upper |-> BMax(self.upper, other.upper),
          K |-> IF self.K # {} THEN self.K ELSE other.K,
          use_widening |-> TRUE]

\* Interval.__and__
IntervalAnd(self, other) ==
    IF is_empty(self) \/ is_empty(other) THEN IntervalEmpty
    ELSE LET lo == BMax(self.lower, other.lower)
             hi == BMin(self.upper, other.upper)
         IN  IF BGt(lo, hi) THEN IntervalEmpty ELSE Interval(lo, hi)

\* an addition that forgets the upper bound of b
ArithAddLowerOnly(a, b) ==
    [lower |-> BAdd(a.lower, b.lower), upper |-> a.upper,
     K |-> IF a.K # {} THEN a.K ELSE b.K, use_widening |-> TRUE]

\* Arithmetic.add
ArithAdd(a, b) ==
    [lower |-> BAdd(a.lower, b.lower), upper |-> BAdd(a.upper, b.upper),
     K |-> IF a.K # {} THEN a.K ELSE b.K, use_widening |-> TRUE]

\* Arithmetic.sub
ArithSub(a, b) ==
    [lower |-> BSub(a.lower, b.upper), upper |-> BSub(a.upper, b.lower),
     K |-> IF a.K # {} THEN a.K ELSE b.K, use_widening |-> TRUE]

\* Interval.__add__
IntervalAdd(self, other) ==
    IF is_empty(self) \/ is_empty(other) THEN IntervalEmpty ELSE ArithAdd(self, other)

\* an abstraction that keeps only the least item
IntervalAbstractMinOnly(items) ==
    IF items = {} THEN IntervalEmpty
    ELSE LET lo == CHOOSE x \in items : \A y \in items : x <= y
         IN  Interval(Fin(lo), Fin(lo))

\* Interval.abstract
IntervalAbstract(items) ==
    IF items = {} THEN IntervalEmpty
    ELSE LET lo == CHOOSE x \in items : \A y \in items : x <= y
             hi == CHOOSE x \in items : \A y \in items : x >= y
         IN  Interval(Fin(lo), Fin(hi))

\* Interval.concrete of an interval with integer bounds
IntervalConcrete(interval) ==
    IF is_empty(interval) THEN {} ELSE interval.lower.n .. interval.upper.n

\* an interval whose construction raised
IntervalRaised(iv) == iv.lower.inf = 2 \/ iv.upper.inf = 2

(***************************************************************************)
(* Opcodes (jvm.Opcode).  Every opcode is a record of one shape:           *)
(*   op  the variant, t  a type payload, a / b  integer payloads (index,   *)
(*   immediate, target, amount, number of parameters), s  a name payload   *)
(*   (condition, binary operator, class, field or callee).                 *)
(***************************************************************************)
Opc(op, t, a, b, s) == [op |-> op, t |-> t, a |-> a, b |-> b, s |-> s]

Push(v) == Opc("Push", "int", v, 0, "")

Load(t, i) == Opc("Load", t, i, 0, "")

Store(t, i) == Opc("Store", t, i, 0, "")

Dup == Opc("Dup", "", 1, 0, "")

Incr(i, n) == Opc("Incr", "int", i, n, "")

Binary(opr) == Opc("Binary", "int", 0, 0, opr)

Cast(to) == Opc("Cast", to, 0, 0, "")

Ifz(c, target) == Opc("Ifz", "", target, 0, c)

If(c, target) == Opc("If", "", target, 0, c)

Goto(target) == Opc("Goto", "", target, 0, "")

Return(t) == Opc("Return", t, 0, 0, "")

New(classname) == Opc("New", "", 0, 0, classname)

InvokeStatic(callee, nparams) == Opc("InvokeStatic", "", nparams, 0, callee)

InvokeSpecial(classname) == Opc("InvokeSpecial", "", 0, 0, classname)

Get(field) == Opc("Get", "", 0, 0, field)

NewArray == Opc("NewArray", "int", 1, 0, "")

ArrayLoad == Opc("ArrayLoad", "int", 0, 0, "")

ArrayStore == Opc("ArrayStore", "int", 0, 0, "")

ArrayLength == Opc("ArrayLength", "", 0, 0, "")

Throw == Opc("Throw", "", 0, 0, "")

AssertionError == "java/lang/AssertionError"

assertionsDisabled == "$assertionsDisabled:Z"

(***************************************************************************)
(* PC, AbstractValue, PerVarFrame, AState  (group30/abstract_interpreter)  *)
(***************************************************************************)
\* PC(method, offset)
PC(m, o) == [method |-> m, offset |-> o]

\* AbstractValue(type, interval)
AbstractValue(t, iv) == [type |-> t, interval |-> iv]

\* AbstractValue.int_interval
int_interval(iv) == AbstractValue("int", iv)

\* Interval(-sys.maxsize, sys.maxsize), the "top" of the abstract step
TopInterval == Interval(Fin(0 - maxsize), Fin(maxsize))

\* AbstractValue.from_concrete_w_K
from_concrete_w_K(K, type) ==
    IF type = "int"
    THEN (IF K # {}
          THEN LET lo == CHOOSE x \in K : \A y \in K : x <= y
                   hi == CHOOSE x \in K : \A y \in K : x >= y
               IN  AbstractValue("int", init_K(Interval(Fin(lo), Fin(hi)), K))
          ELSE AbstractValue("int", TopInterval))
    ELSE AbstractValue(type, IntervalEmpty)

\* AbstractValue.__or__
AbstractValueOr(self, other) ==
    AbstractValue(self.type, IntervalOr(self.interval, other.interval))

\* a dict with no key
EmptyDict == [x \in {} |-> 0]

\* d[k] = v on a copy of the dict d
DictSet(d, k, v) == [x \in (DOMAIN d) \cup {k} |-> IF x = k THEN v ELSE d[x]]

\* PerVarFrame(locals, stack); the top of the stack is the last item
PerVarFrame(locals, stack) == [locals |-> locals, stack |-> stack]

\* items[:n] of a Python list
Prefix(items, n) == SubSeq(items, 1, n)

\* PerVarFrame.__or__
PerVarFrameOr(self, other) ==
    LET all_vars == (DOMAIN self.locals) \cup (DOMAIN other.locals)
        joined_locals ==
            [v \in all_vars |->
                IF v \in DOMAIN self.locals /\ v \in DOMAIN other.locals
                THEN AbstractValueOr(self.locals[v], other.locals[v])
                ELSE IF v \in DOMAIN self.locals THEN self.locals[v]
                ELSE other.locals[v]]
        min_len == IF Len(self.stack) < Len(other.stack)
                   THEN Len(self.stack) ELSE Len(other.stack)
        joined_stack ==
            [i \in 1..min_len |-> AbstractValueOr(self.stack[i], other.stack[i])]
    IN  PerVarFrame(joined_locals, joined_stack)

\* AState(frames, pc); the current frame is the last one
AState(frames, pc) == [frames |-> frames, pc |-> pc]

\* AState.__or__ (the caller guarantees equal PCs)
AStateOr(self, other) ==
    LET min_depth == IF Len(self.frames) < Len(other.frames)
                     THEN Len(self.frames) ELSE Len(other.frames)
    IN  AState([i \in 1..min_depth |-> PerVarFrameOr(self.frames[i], other.frames[i])],
               self.pc)

\* does a frame / a state hold an interval whose arithmetic raised
FrameRaised(f) ==
    \/ \E v \in DOMAIN f.locals : IntervalRaised(f.locals[v].interval)
    \/ \E i \in 1..Len(f.stack) : IntervalRaised(f.stack[i].interval)

StateRaised(st) == \E i \in 1..Len(st.frames) : FrameRaised(st.frames[i])

(***************************************************************************)
(* step of the abstract interpreter (group30/abstract_interpreter.py).     *)
(* The generator's result is the sequence of what it yields, each item a   *)
(* successor AState (term = "") or a terminal string, and a flag telling   *)
(* that it raised an exception.                                            *)
(***************************************************************************)
NoState == AState(<< >>, PC("", 0))

YState(st) == [term |-> "", st |-> st]

YTerm(label) == [term |-> label, st |-> NoState]

Yields(ys) == [ys |-> ys, raised |-> FALSE]

Raises == [ys |-> << >>, raised |-> TRUE]

\* state.frames.peek()
Peek(state) == state.frames[Len(state.frames)]

\* Stack(state.frames.items[:-1] + [new_frame])
ReplaceTop(state, new_frame) ==
    Prefix(state.frames, Len(state.frames) - 1) \o << new_frame >>

\* the yield of the default case
UnhandledOpcode(opr) == "ERROR: Unhandled opcode " \o opr.op

\* a branch test that always finds the jump feasible
IfzCanBeTrueAlways(c, interval) == TRUE

\* can_be_true of Ifz
IfzCanBeTrue(c, interval) ==
    CASE c = "eq" -> Contains(interval, Fin(0))
      [] c = "ne" -> ~BEq(interval.lower, Fin(0)) \/ ~BEq(interval.upper, Fin(0))
      [] c = "lt" -> BLt(interval.lower, Fin(0))
      [] c = "ge" -> BGe(interval.upper, Fin(0))
      [] c = "gt" -> BGt(interval.upper, Fin(0))
      [] c = "le" -> BLe(interval.lower, Fin(0))
      [] OTHER -> TRUE

\* can_be_false of Ifz
IfzCanBeFalse(c, interval) ==
    CASE c = "eq" -> ~BEq(interval.lower, Fin(0)) \/ ~BEq(interval.upper, Fin(0))
      [] c = "ne" -> Contains(interval, Fin(0))
      [] c = "lt" -> BGe(interval.upper, Fin(0))
      [] c = "ge" -> BLt(interval.lower, Fin(0))
      [] c = "gt" -> BLe(interval.lower, Fin(0))
      [] c = "le" -> BGt(interval.upper, Fin(0))
      [] OTHER -> TRUE

\* i1.lower == i1.upper == i2.lower == i2.upper
AllEqual(i1, i2) ==
    BEq(i1.lower, i1.upper) /\ BEq(i1.upper, i2.lower) /\ BEq(i2.lower, i2.upper)

\* can_be_true of If
IfCanBeTrue(c, i1, i2) ==
    CASE c = "eq" -> ~is_empty(IntervalAnd(i1, i2))
      [] c = "ne" -> ~AllEqual(i1, i2)
      [] c = "lt" -> BLt(i1.lower, i2.upper)
      [] c = "ge" -> BGe(i1.upper, i2.lower)
      [] c = "gt" -> BGt(i1.upper, i2.lower)
      [] c = "le" -> BLe(i1.lower, i2.upper)
      [] OTHER -> TRUE

\* can_be_false of If
IfCanBeFalse(c, i1, i2) ==
    CASE c = "eq" -> ~AllEqual(i1, i2)
      [] c = "ne" -> ~is_empty(IntervalAnd(i1, i2))
      [] c = "lt" -> BGe(i1.upper, i2.lower)
      [] c = "ge" -> BLt(i1.lower, i2.upper)
      [] c = "gt" -> BLe(i1.lower, i2.upper)
      [] c = "le" -> BGt(i1.upper, i2.lower)
      [] OTHER -> TRUE

\* the two successors of a conditional branch, jump first
BranchYields(state, new_frames, t, can_be_true, can_be_false) ==
    (IF can_be_true
     THEN << YState(AState(new_frames, PC(state.pc.method, t))) >> ELSE << >>)
    \o
    (IF can_be_false
     THEN << YState(AState(new_frames, PC(state.pc.method, state.pc.offset + 1))) >>
     ELSE << >>)

\* the successor at pc + 1 whose current frame is new_frame
Advance(state, new_frame) ==
    LET st == AState(ReplaceTop(state, new_frame),
                     PC(state.pc.method, state.pc.offset + 1))
    IN  IF FrameRaised(new_frame) THEN Raises ELSE Yields(<< YState(st) >>)

\* result_interval of Binary Div when the divisor can be non-zero
DivResult(v1, v2) ==
    IF BEq(v2.interval.lower, v2.interval.upper) /\ ~BEq(v2.interval.lower, Fin(0))
    THEN Interval(BFloorDiv(v1.interval.lower, v2.interval.lower),
                  BFloorDiv(v1.interval.upper, v2.interval.lower))
    ELSE TopInterval

\* result_interval of Binary Mul
MulResult(v1, v2) ==
    IF ~is_empty(v1.interval) /\ ~is_empty(v2.interval)
    THEN LET p1 == BMul(v1.interval.lower, v2.interval.lower)
             p2 == BMul(v1.interval.lower, v2.interval.upper)
             p3 == BMul(v1.interval.upper, v2.interval.lower)
             p4 == BMul(v1.interval.upper, v2.interval.upper)
         IN  Interval(BMin(BMin(BMin(p1, p2), p3), p4),
                      BMax(BMax(BMax(p1, p2), p3), p4))
    ELSE IntervalEmpty

\* result_interval of Binary Rem
RemResult(v1, v2) ==
    IF ~is_empty(v1.interval) /\ ~is_empty(v2.interval)
    THEN LET max_abs_divisor == BMax(BAbs(v2.interval.lower), BAbs(v2.interval.upper))
         IN  IF BAbs(v2.interval.lower).inf = 2 \/ BAbs(v2.interval.upper).inf = 2
             THEN Interval(Raised, Raised)
             ELSE Interval(BAdd(BNeg(max_abs_divisor), Fin(1)),
                           BSub(max_abs_divisor, Fin(1)))
    ELSE IntervalEmpty

\* case jvm.Binary(type=jvm.Int(), operant=...)
StepBinary(state, opr) ==
    LET frame == Peek(state)
        n == Len(frame.stack)
        v2 == frame.stack[n]
        v1 == frame.stack[n - 1]
        push(iv) == Advance(state, PerVarFrame(frame.locals,
                        Prefix(frame.stack, n - 2) \o << int_interval(iv) >>))
    IN  IF n < 2 THEN Yields(<< >>)
        ELSE CASE opr.s = "Div" ->
                    LET dz == IF Contains(v2.interval, Fin(0))
                              THEN << YTerm("divide by zero") >> ELSE << >>
                        nz == ~BEq(v2.interval.lower, Fin(0)) \/ ~BEq(v2.interval.upper, Fin(0))
                        r == push(DivResult(v1, v2))
                    IN  IF ~nz THEN Yields(dz)
                        ELSE IF r.raised THEN Raises
                        ELSE Yields(dz \o r.ys)
               [] opr.s = "Sub" -> push(ArithSub(v1.interval, v2.interval))
               [] opr.s = "Add" -> push(ArithAdd(v1.interval, v2.interval))
               [] opr.s = "Mul" -> push(MulResult(v1, v2))
               [] opr.s = "Rem" -> push(RemResult(v1, v2))

\* case jvm.Return(...)
StepReturn(state, opr) ==
    LET frame == Peek(state)
        depth == Len(state.frames)
    IN  IF opr.t = "void"
        THEN (IF depth <= 1 THEN Yields(<< YTerm("ok") >>)
              ELSE Yields(<< YState(AState(Prefix(state.frames, depth - 1), state.pc)) >>))
        ELSE IF frame.stack = << >> THEN Yields(<< >>)
        ELSE IF depth <= 1 THEN Yields(<< YTerm("ok") >>)
        ELSE LET v1 == frame.stack[Len(frame.stack)]
                 caller_frame == state.frames[depth - 1]
                 new_caller_frame == PerVarFrame(caller_frame.locals,
                                                 caller_frame.stack \o << v1 >>)
             IN  Yields(<< YState(AState(Prefix(state.frames, depth - 2)
                                           \o << new_caller_frame >>, state.pc)) >>)

\* case jvm.InvokeStatic(method=static_methodid)
StepInvokeStatic(state, opr) ==
    LET frame == Peek(state)
        n == Len(frame.stack)
        num_params == opr.a
        \* items[-num_params:] and items[:-num_params]; -0 is 0 in Python,
        \* so for num_params = 0 the slices are the whole list and the empty list
        args == IF num_params = 0 THEN frame.stack
                ELSE SubSeq(frame.stack, n - num_params + 1, n)
        new_caller_stack == IF num_params = 0 THEN << >>
                            ELSE Prefix(frame.stack, n - num_params)
        new_caller_frame == PerVarFrame(frame.locals, new_caller_stack)
        new_callee_locals == [i \in 0..(num_params - 1) |-> args[i + 1]]
        new_callee_frame == PerVarFrame(new_callee_locals, << >>)
    IN  IF n < num_params THEN Yields(<< >>)
        ELSE Yields(<< YState(AState(
                 Prefix(state.frames, Len(state.frames) - 1)
                     \o << new_caller_frame, new_callee_frame >>,
                 PC(opr.s, 0))) >>)

\* step(state, bc): the match on bc[state.pc]
step(state, bc) ==
    LET pc == state.pc
        opcodes == bc.methods[pc.method]
        opr == opcodes[pc.offset + 1]
        frame == Peek(state)
        n == Len(frame.stack)
        top == frame.stack[n]
    IN
    IF pc.offset >= Len(opcodes) THEN Raises
    ELSE CASE opr.op = "Get" ->
              IF opr.s = assertionsDisabled
              THEN Advance(state, PerVarFrame(frame.locals,
                       frame.stack \o << int_interval(Interval(Fin(0), Fin(0))) >>))
              ELSE Raises
      [] opr.op = "Goto" ->
              Yields(<< YState(AState(state.frames, PC(pc.method, opr.a))) >>)
      [] opr.op = "New" ->
              IF opr.s = AssertionError THEN Yields(<< YTerm("assertion error") >>)
              ELSE Yields(<< >>)
      [] opr.op = "Ifz" ->
              IF n = 0 THEN Yields(<< >>)
              ELSE LET both == top.type # "int"
                       new_frames == ReplaceTop(state,
                           PerVarFrame(frame.locals, Prefix(frame.stack, n - 1)))
                   IN  Yields(BranchYields(state, new_frames, opr.a,
                           both \/ IfzCanBeTrue(opr.s, top.interval),
                           both \/ IfzCanBeFalse(opr.s, top.interval)))
      [] opr.op = "If" ->
              IF n < 2 THEN Yields(<< >>)
              ELSE LET value2 == frame.stack[n]
                       value1 == frame.stack[n - 1]
                       both == value1.type # "int" \/ value2.type # "int"
                       new_frames == ReplaceTop(state,
                           PerVarFrame(frame.locals, Prefix(frame.stack, n - 2)))
                   IN  Yields(BranchYields(state, new_frames, opr.a,
                           both \/ IfCanBeTrue(opr.s, value1.interval, value2.interval),
                           both \/ IfCanBeFalse(opr.s, value1.interval, value2.interval)))
      [] opr.op = "ArrayLength" -> Yields(<< >>)
      [] opr.op = "Dup" ->
              IF n = 0 THEN Yields(<< >>)
              ELSE Advance(state, PerVarFrame(frame.locals, frame.stack \o << top >>))
      [] opr.op = "Push" ->
              LET abs_val == IF opr.t = "int"
                             THEN AbstractValue("int",
                                      init_K(Interval(Fin(opr.a), Fin(opr.a)), bc.K))
                             ELSE AbstractValue(opr.t, IntervalEmpty)
              IN  Advance(state, PerVarFrame(frame.locals, frame.stack \o << abs_val >>))
      [] opr.op = "Store" /\ opr.t \in {"int", "ref"} ->
              IF n = 0 THEN Yields(<< >>)
              ELSE IF top.type # opr.t THEN Raises
              ELSE Advance(state, PerVarFrame(DictSet(frame.locals, opr.a, top),
                                              Prefix(frame.stack, n - 1)))
      [] opr.op = "ArrayStore" /\ opr.t = "int" -> Yields(<< >>)
      [] opr.op = "ArrayLoad" -> Yields(<< >>)
      [] opr.op = "Load" /\ opr.t \in {"int", "ref"} ->
              IF opr.a \notin DOMAIN frame.locals THEN Yields(<< >>)
              ELSE Advance(state, PerVarFrame(frame.locals,
                                              frame.stack \o << frame.locals[opr.a] >>))
      [] opr.op = "Binary" /\ opr.t = "int"
           /\ opr.s \in {"Div", "Sub", "Add", "Mul", "Rem"} -> StepBinary(state, opr)
      [] opr.op = "Cast" ->
              IF n = 0 THEN Yields(<< >>)
              ELSE Yields(<< YState(AState(state.frames, PC(pc.method, pc.offset + 1))) >>)
      [] opr.op = "Incr" ->
              IF opr.a \notin DOMAIN frame.locals THEN Yields(<< >>)
              ELSE LET v == frame.locals[opr.a]
                       result_interval == ArithAdd(v.interval, Interval(Fin(opr.b), Fin(opr.b)))
                   IN  Advance(state, PerVarFrame(
                           DictSet(frame.locals, opr.a, int_interval(result_interval)),
                           frame.stack))
      [] opr.op = "Return" /\ opr.t \in {"int", "ref", "void"} -> StepReturn(state, opr)
      [] opr.op = "NewArray" /\ opr.t = "int" -> Yields(<< >>)
      [] opr.op = "InvokeSpecial" ->
              IF opr.s = AssertionError THEN Yields(<< YTerm("assertion error") >>)
              ELSE Raises
      [] opr.op = "InvokeStatic" -> StepInvokeStatic(state, opr)
      [] OTHER -> Yields(<< YTerm(UnhandledOpcode(opr)) >>)

(***************************************************************************)
(* The concrete interpreter (interpreter/interpreter.py).                  *)
(* jvm.Value is a record (type, value); the value of a Reference is a heap *)
(* index or None; the value of an array in the heap is a sequence.         *)
(* step returns the successor State, a terminal string, or raises.         *)
(***************************************************************************)
Value(t, v) == [type |-> t, value |-> v]

\* Frame(locals, stack, pc)
Frame(locals, stack, pc) == [locals |-> locals, stack |-> stack, pc |-> pc]

\* State(heap, frames)
State(heap, frames) == [heap |-> heap, frames |-> frames]

NoCState == State(EmptyDict, << >>)

CNext(state) == [state |-> state, term |-> "", raised |-> FALSE]

CTerm(label) == [state |-> NoCState, term |-> label, raised |-> FALSE]

CRaises == [state |-> NoCState, term |-> "", raised |-> TRUE]

\* the state whose current frame is replaced by new_frame
CReplaceTop(state, new_frame) ==
    State(state.heap, Prefix(state.frames, Len(state.frames) - 1) \o << new_frame >>)

\* the comparison of Ifz / If
Jump(c, value1, value2) ==
    CASE c = "eq" -> value1 = value2
      [] c = "ne" -> value1 # value2
      [] c = "lt" -> value1 < value2
      [] c = "ge" -> value1 >= value2
      [] c = "gt" -> value1 > value2
      [] c = "le" -> value1 <= value2
      [] OTHER -> FALSE

\* list[index] of Python: a negative index counts from the end
PyIndex(items, index) == IF index < 0 THEN Len(items) + index + 1 ELSE index + 1

\* list[index] raises IndexError
PyIndexError(items, index) == index >= Len(items) \/ index < 0 - Len(items)

\* case jvm.Binary(type=jvm.Int(), operant=...)
CStepBinary(state, opr) ==
    LET frame == state.frames[Len(state.frames)]
        n == Len(frame.stack)
        v2 == frame.stack[n]
        v1 == frame.stack[n - 1]
        push(x) == CNext(CReplaceTop(state,
                       Frame(frame.locals, Prefix(frame.stack, n - 2) \o << Value("int", x) >>,
                             PC(frame.pc.method, frame.pc.offset + 1))))
    IN  IF n < 2 THEN CRaises
        ELSE IF v1.type # "int" \/ v2.type # "int" THEN CRaises
        ELSE CASE opr.s = "Div" ->
                    IF v2.value = 0 THEN CTerm("divide by zero")
                    ELSE push(FloorDiv(v1.value, v2.value))
               [] opr.s = "Sub" -> push(v1.value - v2.value)
               [] opr.s = "Add" -> push(v1.value + v2.value)
               [] opr.s = "Mul" -> push(v1.value * v2.value)
               [] opr.s = "Rem" ->
                    IF v2.value = 0 THEN CRaises
                    ELSE push(FloorMod(v1.value, v2.value))

\* case jvm.ArrayStore(type=jvm.Int())
CStepArrayStore(state) ==
    LET frame == state.frames[Len(state.frames)]
        n == Len(frame.stack)
        value == frame.stack[n]
        index == frame.stack[n - 1]
        ref == frame.stack[n - 2]
        arr == state.heap[ref.value]
        new_arr == [arr EXCEPT !.value[PyIndex(arr.value, index.value)] = value.value]
        new_frame == Frame(frame.locals, Prefix(frame.stack, n - 3),
                           PC(frame.pc.method, frame.pc.offset + 1))
    IN  IF n < 3 THEN CRaises
        ELSE IF value.type # "int" \/ index.type # "int" \/ ref.type # "ref" THEN CRaises
        ELSE IF ref.value = None THEN CTerm("null pointer")
        ELSE IF ref.value \notin DOMAIN state.heap THEN CRaises
        ELSE IF arr.type # "int[]" THEN CRaises
        ELSE IF Len(arr.value) <= index.value THEN CTerm("out of bounds")
        ELSE IF PyIndexError(arr.value, index.value) THEN CRaises
        ELSE CNext(State([state.heap EXCEPT ![ref.value] = new_arr],
                         Prefix(state.frames, Len(state.frames) - 1) \o << new_frame >>))

\* case jvm.ArrayLoad(type=t)
CStepArrayLoad(state, opr) ==
    LET frame == state.frames[Len(state.frames)]
        n == Len(frame.stack)
        idx == frame.stack[n]
        ref == frame.stack[n - 1]
        arr == state.heap[ref.value]
        v == Value(opr.t, arr.value[PyIndex(arr.value, idx.value)])
    IN  IF n < 2 THEN CRaises
        ELSE IF ref.type # "ref" THEN CRaises
        ELSE IF ref.value \notin DOMAIN state.heap THEN CRaises
        ELSE IF arr.type # "int[]" THEN CRaises
        ELSE IF Len(arr.value) <= idx.value THEN CTerm("out of bounds")
        ELSE IF PyIndexError(arr.value, idx.value) THEN CRaises
        ELSE CNext(CReplaceTop(state,
                 Frame(frame.locals, Prefix(frame.stack, n - 2) \o << v >>,
                       PC(frame.pc.method, frame.pc.offset + 1))))

\* a Return that ends the run whatever the depth of the frame stack
CStepReturnAnyDepth(state, opr) ==
    LET frame == state.frames[Len(state.frames)]
    IN  IF opr.t # "void" /\ Len(frame.stack) = 0 THEN CRaises
        ELSE CTerm("ok")

\* case jvm.Return(...)
CStepReturn(state, opr) ==
    LET frame == state.frames[Len(state.frames)]
        n == Len(frame.stack)
        depth == Len(state.frames)
        caller == state.frames[depth - 1]
        pushed == IF opr.t = "void" THEN caller.stack
                  ELSE caller.stack \o << frame.stack[n] >>
    IN  IF opr.t # "void" /\ n = 0 THEN CRaises
        ELSE IF depth > 1
        THEN CNext(State(state.heap,
                 Prefix(state.frames, depth - 2)
                   \o << Frame(caller.locals, pushed,
                               PC(caller.pc.method, caller.pc.offset + 1)) >>))
        ELSE CTerm("ok")

\* an InvokeStatic that fills the callee's locals in the order of the pops
CStepInvokeStaticReversed(state, opr) ==
    LET frame == state.frames[Len(state.frames)]
        n == Len(frame.stack)
        num_params == opr.a
        new_locals == [i \in 0..(num_params - 1) |-> frame.stack[n - i]]
        new_frame == Frame(new_locals, << >>, PC(opr.s, 0))
        caller == Frame(frame.locals, Prefix(frame.stack, n - num_params), frame.pc)
    IN  IF n < num_params THEN CRaises
        ELSE CNext(State(state.heap,
                 Prefix(state.frames, Len(state.frames) - 1) \o << caller, new_frame >>))

\* case jvm.InvokeStatic(method=static_methodid)
CStepInvokeStatic(state, opr) ==
    LET frame == state.frames[Len(state.frames)]
        n == Len(frame.stack)
        num_params == opr.a
        new_locals == [i \in 0..(num_params - 1) |-> frame.stack[n - num_params + 1 + i]]
        new_frame == Frame(new_locals, << >>, PC(opr.s, 0))
        caller == Frame(frame.locals, Prefix(frame.stack, n - num_params), frame.pc)
    IN  IF n < num_params THEN CRaises
        ELSE CNext(State(state.heap,
                 Prefix(state.frames, Len(state.frames) - 1) \o << caller, new_frame >>))

\* step(state) of the concrete interpreter; methods is the bytecode of the suite
cstep(state, methods) ==
    LET frame == state.frames[Len(state.frames)]
        pc == frame.pc
        opcodes == methods[pc.method]
        opr == opcodes[pc.offset + 1]
        n == Len(frame.stack)
        top == frame.stack[n]
        next_pc == PC(pc.method, pc.offset + 1)
        to(stack, newpc) == CNext(CReplaceTop(state, Frame(frame.locals, stack, newpc)))
    IN
    IF pc.offset >= Len(opcodes) THEN CRaises
    ELSE CASE opr.op = "Get" ->
              IF opr.s = assertionsDisabled
              THEN to(frame.stack \o << Value("int", 0) >>, next_pc)
              ELSE CRaises
      [] opr.op = "Goto" -> to(frame.stack, PC(pc.method, opr.a))
      [] opr.op = "New" ->
              IF opr.s = AssertionError THEN CTerm("assertion error") ELSE CRaises
      [] opr.op = "Ifz" ->
              IF n = 0 THEN CRaises
              ELSE IF top.type = "ref" /\ top.value = None THEN CRaises
              ELSE to(Prefix(frame.stack, n - 1),
                      IF Jump(opr.s, top.value, 0) THEN PC(pc.method, opr.a) ELSE next_pc)
      [] opr.op = "If" ->
              IF n < 2 THEN CRaises
              ELSE to(Prefix(frame.stack, n - 2),
                      IF Jump(opr.s, frame.stack[n - 1].value, top.value)
                      THEN PC(pc.method, opr.a) ELSE next_pc)
      [] opr.op = "ArrayLength" ->
              IF n = 0 THEN CRaises
              ELSE IF top.type # "ref" THEN CRaises
              ELSE IF top.value = None THEN CTerm("null pointer")
              ELSE IF top.value \notin DOMAIN state.heap THEN CRaises
              ELSE to(Prefix(frame.stack, n - 1)
                        \o << Value("int", Len(state.heap[top.value].value)) >>, next_pc)
      [] opr.op = "Dup" ->
              IF n = 0 THEN CRaises ELSE to(frame.stack \o << top >>, next_pc)
      [] opr.op = "Push" -> to(frame.stack \o << Value(opr.t, opr.a) >>, next_pc)
      [] opr.op = "Store" /\ opr.t \in {"int", "ref"} ->
              IF n = 0 THEN CRaises
              ELSE IF top.type # opr.t THEN CRaises
              ELSE CNext(CReplaceTop(state,
                       Frame(DictSet(frame.locals, opr.a, top), Prefix(frame.stack, n - 1), next_pc)))
      [] opr.op = "ArrayStore" /\ opr.t = "int" -> CStepArrayStore(state)
      [] opr.op = "ArrayLoad" -> CStepArrayLoad(state, opr)
      [] opr.op = "Load" /\ opr.t \in {"int", "ref"} ->
              IF opr.a \notin DOMAIN frame.locals THEN CRaises
              ELSE to(frame.stack \o << frame.locals[opr.a] >>, next_pc)
      [] opr.op = "Binary" /\ opr.t = "int"
           /\ opr.s \in {"Div", "Sub", "Add", "Mul", "Rem"} -> CStepBinary(state, opr)
      [] opr.op = "Cast" ->
              IF n = 0 THEN CRaises
              ELSE IF opr.t = "short" THEN to(frame.stack, next_pc)
              ELSE CRaises
      [] opr.op = "Incr" ->
              IF opr.a \notin DOMAIN frame.locals THEN CRaises
              ELSE IF frame.locals[opr.a].type # "int" THEN CRaises
              ELSE CNext(CReplaceTop(state,
                       Frame(DictSet(frame.locals, opr.a,
                                     Value("int", frame.locals[opr.a].value + opr.b)),
                             frame.stack, next_pc)))
      [] opr.op = "Return" /\ opr.t \in {"int", "ref", "void"} -> CStepReturn(state, opr)
      [] opr.op = "NewArray" /\ opr.t = "int" ->
              IF opr.a > 1 THEN CRaises
              ELSE IF n = 0 THEN CRaises
              ELSE LET size == IF top.value < 0 THEN 0 ELSE top.value
                       ref == Cardinality(DOMAIN state.heap)
                       arr == Value("int[]", [k \in 1..size |-> 0])
                   IN  CNext(State(DictSet(state.heap, ref, arr),
                             Prefix(state.frames, Len(state.frames) - 1)
                               \o << Frame(frame.locals,
                                           Prefix(frame.stack, n - 1) \o << Value("ref", ref) >>,
                                           next_pc) >>))
      [] opr.op = "InvokeSpecial" ->
              IF opr.s = AssertionError THEN CTerm("assertion error") ELSE CRaises
      [] opr.op = "InvokeStatic" -> CStepInvokeStatic(state, opr)
      [] OTHER -> CRaises

(***************************************************************************)
(* The catalogue of analysed methods: the bytecode of the suite (the       *)
(* analysed method is "main"), the JVM types of its parameters and the     *)
(* constants K the syntaxer extracts from its source.                      *)
(***************************************************************************)
PushNull == Opc("Push", "ref", None, 0, "")

\* int f(int n) { return 10 / n; }
DivByParam ==
    [methods |-> [main |-> << Push(10), Load("int", 0), Binary("Div"), Return("int") >>],
     params |-> << "int" >>, K |-> {10}]

\* void g(int n) { assert n > 0; }
AssertPositive ==
    [methods |-> [main |-> << Get(assertionsDisabled), Ifz("ne", 8), Load("int", 0),
                              Ifz("gt", 8), New(AssertionError), Dup,
                              InvokeSpecial(AssertionError), Throw, Return("void") >>],
     params |-> << "int" >>, K |-> {}]

\* void h() { while (true) {} }
InfiniteLoop ==
    [methods |-> [main |-> << Goto(0) >>], params |-> << >>, K |-> {}]

\* int k() { int[] a = new int[3]; return a[5]; }
ArrayOOB ==
    [methods |-> [main |-> << Push(3), NewArray, Store("ref", 0), Load("ref", 0),
                              Push(5), ArrayLoad, Return("int") >>],
     params |-> << >>, K |-> {3, 5}]

\* int[] d(int n) { int s; if (n == 0) s = 1; else s = 1; return new int[s]; }
Diamond ==
    [methods |-> [main |-> << Load("int", 0), Ifz("ne", 5), Push(1), Store("int", 1),
                              Goto(8), Push(1), Store("int", 1), Goto(8),
                              Load("int", 1), NewArray, Return("ref") >>],
     params |-> << "int" >>, K |-> {0, 1}]

\* Object b(int n) { if (n == 0) return new int[2]; return 1; }
BranchHeap ==
    [methods |-> [main |-> << Load("int", 0), Ifz("eq", 4), Push(1), Return("int"),
                              Push(2), NewArray, Return("ref") >>],
     params |-> << "int" >>, K |-> {}]

\* int[] l(int n) { for (int i = 0; i < n; i++) {} return new int[1]; }
LoopThenArray ==
    [methods |-> [main |-> << Push(0), Store("int", 1), Load("int", 1), Load("int", 0),
                              If("ge", 7), Incr(1, 1), Goto(2),
                              Push(1), NewArray, Return("ref") >>],
     params |-> << "int" >>, K |-> {0, 1}]

\* int c(int n) { for (int i = 0; i < n; i++) {} return i; }
CountLoop ==
    [methods |-> [main |-> << Push(0), Store("int", 1), Load("int", 1), Load("int", 0),
                              If("ge", 7), Incr(1, 1), Goto(2),
                              Load("int", 1), Return("int") >>],
     params |-> << "int" >>, K |-> {}]

\* int m(int n) { return 1 / id(n); }   static int id(int x) { return x; }
CallThenDiv ==
    [methods |-> [main |-> << Push(1), Load("int", 0), InvokeStatic("id", 1),
                              Binary("Div"), Return("int") >>,
                  id |-> << Load("int", 0), Return("int") >>],
     params |-> << "int" >>, K |-> {1}]

\* int r(int n) { return 7 % n; }
RemByParam ==
    [methods |-> [main |-> << Push(7), Load("int", 0), Binary("Rem"), Return("int") >>],
     params |-> << "int" >>, K |-> {7}]

\* int q(int n) { return n / -1; }
DivByMinusOne ==
    [methods |-> [main |-> << Load("int", 0), Push(-1), Binary("Div"), Return("int") >>],
     params |-> << "int" >>, K |-> {}]

\* int al(int i) { int[] a = new int[2]; return a[i]; }
ArrLoad ==
    [methods |-> [main |-> << Push(2), NewArray, Store("ref", 1), Load("ref", 1),
                              Load("int", 0), ArrayLoad, Return("int") >>],
     params |-> << "int" >>, K |-> {2}]

\* void as(int i) { int[] a = new int[2]; a[i] = 7; }
ArrStore ==
    [methods |-> [main |-> << Push(2), NewArray, Store("ref", 1), Load("ref", 1),
                              Load("int", 0), Push(7), ArrayStore, Return("void") >>],
     params |-> << "int" >>, K |-> {2, 7}]

\* int nl() { int[] a = null; return a[0]; }
NullLoad ==
    [methods |-> [main |-> << PushNull, Push(0), ArrayLoad, Return("int") >>],
     params |-> << >>, K |-> {0}]

\* void ns() { int[] a = null; a[0] = 7; }
NullStore ==
    [methods |-> [main |-> << PushNull, Push(0), Push(7), ArrayStore, Return("void") >>],
     params |-> << >>, K |-> {0, 7}]

\* void t() { throw null; }
ThrowNull ==
    [methods |-> [main |-> << PushNull, Throw >>], params |-> << >>, K |-> {}]

\* a straight-line method of exactly MAX_STEPS opcodes
Straight100 ==
    [methods |-> [main |-> [k \in 1..MAX_STEPS |->
                               IF k < MAX_STEPS THEN Goto(k) ELSE Return("void")]],
     params |-> << >>, K |-> {}]

\* a straight-line method of MAX_STEPS + 1 opcodes
Straight101 ==
    [methods |-> [main |-> [k \in 1..(MAX_STEPS + 1) |->
                               IF k < MAX_STEPS + 1 THEN Goto(k) ELSE Return("void")]],
     params |-> << >>, K |-> {}]

\* void u(int n) { int x = n / -1; while (true) { x++; } }
Unstable ==
    [methods |-> [main |-> << Load("int", 0), Push(-1), Binary("Div"), Store("int", 1),
                              Incr(1, 1), Goto(4) >>],
     params |-> << "int" >>, K |-> {}]

\* int c() { return (short) 40000; }
CastShort ==
    [methods |-> [main |-> << Push(40000), Cast("short"), Return("int") >>],
     params |-> << >>, K |-> {40000}]

\* int c(int n) { return (short) n; }
CastParam ==
    [methods |-> [main |-> << Load("int", 0), Cast("short"), Return("int") >>],
     params |-> << "int" >>, K |-> {}]

\* int m(int n) { return sub(n, 5); }   int sub(int a, int b) { return a - b; }
Call2 ==
    [methods |-> [main |-> << Load("int", 0), Push(5), InvokeStatic("sub", 2),
                              Return("int") >>,
                  sub |-> << Load("int", 0), Load("int", 1), Binary("Sub"),
                             Return("int") >>],
     params |-> << "int" >>, K |-> {5}]

\* void m() { nop(); }   void nop() { }
CallVoid ==
    [methods |-> [main |-> << InvokeStatic("nop", 0), Return("void") >>,
                  nop |-> << Return("void") >>],
     params |-> << >>, K |-> {}]

\* int s(int n) { if (n != 0) n++; return n; }
SkipIncr ==
    [methods |-> [main |-> << Load("int", 0), Ifz("eq", 3), Incr(0, 1), Load("int", 0),
                              Return("int") >>],
     params |-> << "int" >>, K |-> {0, 1}]

\* int j(int n) { int a; if (n != 0) a = 1; else { a = 0; a--; } return a; }
JoinBranches ==
    [methods |-> [main |-> << Load("int", 0), Ifz("eq", 5), Push(1), Store("int", 1),
                              Goto(8), Push(0), Store("int", 1), Incr(1, -1),
                              Load("int", 1), Return("int") >>],
     params |-> << "int" >>, K |-> {0, 1}]

\* a method of MAX_STEPS opcodes that branches over an increment near its end
LateBranch ==
    [methods |-> [main |-> [k \in 1..MAX_STEPS |->
                               CASE k <= MAX_STEPS - 5 -> Goto(k)
                                 [] k = MAX_STEPS - 4 -> Load("int", 0)
                                 [] k = MAX_STEPS - 3 -> Ifz("eq", MAX_STEPS - 2)
                                 [] k = MAX_STEPS - 2 -> Incr(0, 1)
                                 [] k = MAX_STEPS - 1 -> Goto(MAX_STEPS - 1)
                                 [] OTHER -> Return("void")]],
     params |-> << "int" >>, K |-> {0, 1}]

Catalogue ==
    [DivByParam |-> DivByParam, AssertPositive |-> AssertPositive,
     InfiniteLoop |-> InfiniteLoop, ArrayOOB |-> ArrayOOB, Diamond |-> Diamond,
     BranchHeap |-> BranchHeap, LoopThenArray |-> LoopThenArray,
     CountLoop |-> CountLoop, CallThenDiv |-> CallThenDiv,
     RemByParam |-> RemByParam, DivByMinusOne |-> DivByMinusOne,
     ArrLoad |-> ArrLoad, ArrStore |-> ArrStore,
     NullLoad |-> NullLoad, NullStore |-> NullStore, ThrowNull |-> ThrowNull,
     Straight100 |-> Straight100, Straight101 |-> Straight101,
     Unstable |-> Unstable, CastShort |-> CastShort, CastParam |-> CastParam,
     Call2 |-> Call2, CallVoid |-> CallVoid, SkipIncr |-> SkipIncr,
     JoinBranches |-> JoinBranches, LateBranch |-> LateBranch]

\* the concrete input tuples tried for a method: every int parameter ranges
\* over -MaxInput..MaxInput
Inputs(entry) == [1..Len(entry.params) -> (0 - MaxInput)..MaxInput]

\* the opcodes that need the heap
HeapOps == {"NewArray", "ArrayLoad", "ArrayStore", "ArrayLength"}

\* does some method of the suite contain a heap opcode
UsesHeap(entry) ==
    \E m \in DOMAIN entry.methods :
        \E k \in 1..Len(entry.methods[m]) : entry.methods[m][k].op \in HeapOps

(***************************************************************************)
(* State.                                                                  *)
(***************************************************************************)
VARIABLES
    name,            \* the catalogue method under analysis
    input,           \* the concrete input tuple
    per_inst,        \* StateSet.per_inst : PC -> AState
    needswork,       \* StateSet.needswork
    work,            \* per_instruction: dirty PCs of this pass not yet stepped
    processing_pcs,  \* abstract_interpretation: processing_pcs
    i,               \* number of passes of the for loop completed
    final,           \* abstract_interpretation: final
    hit_max_steps,   \* abstract_interpretation: hit_max_steps
    has_self_loop,   \* abstract_interpretation: has_self_loop
    reentered,       \* history: some successor PC was dirty at the head of
                     \*   the pass that yielded it, or already had a stored
                     \*   state and was marked dirty again by StateSet.__ior__
    marked,          \* history: the PCs that had been marked dirty when the
                     \*   current pass began
    apc,             \* position of abstract_interpretation:
                     \*   "loop" at the head of the for loop, "pass" inside
                     \*   manystep, "done" returned, "raised" left by exception
    cstate,          \* State of the concrete run
    cresult,         \* "" while running, else the terminal label, "*" or "raised"
    csteps,          \* concrete steps performed
    executed,        \* history: the InvokeStatic and Return steps the concrete
                     \*   run has executed
    fn,              \* the function a unit run applies ("" in a run of the analyzer)
    args,            \* the arguments of the unit run
    out,             \* the result of the unit run
    gen,             \* the generator fair_product(*sources): its locals, its
                     \*   position and, as history, what it has yielded
    construction,    \* the call stack of a CFG construction, the registry of
                     \*   CFGs and the position of the construction
    method_signature,     \* FullStrategy.method_signature
    static_method_inputs, \* the number of static inputs not yet popped
    interval_inputs,      \* the number of interval inputs not yet taken
    stop_event,           \* threading.Event: is_set()
    outputs_encountered,  \* FullStrategy.run: outputs_encountered
    final_states,         \* FullStrategy.run: final_states
    wpc,             \* position of fuzz_loop: "off" not started, "analyze"
                     \*   in analyze_method, "head" at the head of a loop,
                     \*   "call" about to call interpreter.run, "running"
                     \*   inside it, "returned", or "raised" left by exception
    phase,           \* the loop fuzz_loop is in
    spc,             \* position of FullStrategy.run
    alive,           \* the value t.is_alive() returned
    printed,         \* what the process has printed on stdout
    exit_code,       \* the exit status of the process, None while it runs
    at_cancel        \* history: outputs_encountered when stop_event was set

vars == << name, input, per_inst, needswork, work, processing_pcs, i, final,
           hit_max_steps, has_self_loop, reentered, marked, apc, cstate, cresult, csteps,
           executed, fn, args, out, gen, construction,
           method_signature, static_method_inputs, interval_inputs,
           stop_event, outputs_encountered, final_states, wpc, phase, spc, alive,
           printed, exit_code, at_cancel >>

avars == << per_inst, needswork, work, processing_pcs, i, final,
            hit_max_steps, has_self_loop, reentered, marked, apc >>

cvars == << cstate, cresult, csteps, executed >>

uvars == << fn, args, out, gen, construction >>

fvars == << method_signature, static_method_inputs, interval_inputs, stop_event,
            outputs_encountered, final_states, wpc, phase, spc, alive, printed,
            exit_code, at_cancel >>

\* nothing has been printed
NoOutput == [done |-> FALSE]

\* no fuzzer runs during a run of the analyzer or a unit run
FuzzOff ==
    /\ method_signature = [params |-> << >>]
    /\ static_method_inputs = 0
    /\ interval_inputs = 0
    /\ stop_event = FALSE
    /\ outputs_encountered = {}
    /\ final_states = {}
    /\ wpc = "off"
    /\ phase = ""
    /\ spc = "off"
    /\ alive = FALSE
    /\ printed = NoOutput
    /\ exit_code = None
    /\ at_cancel = {}

\* the result of a unit run that has not been computed yet
NoOut == [done |-> FALSE]

\* no CFG is under construction
NotBuilding == [pc |-> "off"]

\* no generator has been created
GenOff == [pc |-> "off"]

entry == Catalogue[name]

\* Bytecode(suite, dict(), K if K else set())
bc == [methods |-> entry.methods, K |-> entry.K]

\* abstract_interpretation: initial_input_intervals
initial_input_intervals ==
    [k \in 1..Len(entry.params) |-> from_concrete_w_K(entry.K, entry.params[k]).interval]

\* AState.initialstate_from_method
initialstate_from_method(params, K) ==
    LET initial_locals == [k \in 0..(Len(params) - 1) |-> from_concrete_w_K(K, params[k + 1])]
        initial_pc == PC("main", 0)
    IN  [per_inst |-> [p \in {initial_pc} |->
                          AState(<< PerVarFrame(initial_locals, << >>) >>, initial_pc)],
         needswork |-> {initial_pc}]

\* the initial State of a concrete run: the input tuple fills locals 0..n-1
initial_cstate(params, in) ==
    State(EmptyDict,
          << Frame([k \in 0..(Len(params) - 1) |-> Value(params[k + 1], in[k + 1])],
                   << >>, PC("main", 0)) >>)

Init ==
    /\ name \in DOMAIN Catalogue
    /\ input \in Inputs(Catalogue[name])
    /\ per_inst = initialstate_from_method(Catalogue[name].params, Catalogue[name].K).per_inst
    /\ needswork = initialstate_from_method(Catalogue[name].params, Catalogue[name].K).needswork
    /\ work = {}
    /\ processing_pcs = {}
    /\ i = 0
    /\ final = {}
    /\ hit_max_steps = FALSE
    /\ has_self_loop = FALSE
    /\ reentered = FALSE
    /\ marked = {}
    /\ apc = "loop"
    /\ cstate = initial_cstate(Catalogue[name].params, input)
    /\ cresult = ""
    /\ csteps = 0
    /\ executed = [InvokeStatic |-> 0, Return |-> 0]
    /\ fn = ""
    /\ args = << >>
    /\ FuzzOff
    /\ out = NoOut
    /\ gen = GenOff
    /\ construction = NotBuilding

(***************************************************************************)
(* The worklist driver: StateSet and abstract_interpretation.              *)
(***************************************************************************)
\* StateSet.__ior__ : sts |= astate
StateSetIor(sts, astate) ==
    LET pc == astate.pc
    IN  IF pc \in DOMAIN sts.per_inst
        THEN LET old == sts.per_inst[pc]
                 new == AStateOr(old, astate)
             IN  IF new # old
                 THEN [per_inst |-> [sts.per_inst EXCEPT ![pc] = new],
                       needswork |-> sts.needswork \cup {pc}]
                 ELSE sts
        ELSE [per_inst |-> DictSet(sts.per_inst, pc, astate),
              needswork |-> sts.needswork \cup {pc}]

\* the body of "for s in manystep(state_set, bc)" for the items one step yields
RECURSIVE Consume(_, _, _)
Consume(ys, acc, processing) ==
    IF ys = << >> THEN acc
    ELSE LET s == Head(ys)
         IN  IF s.term # ""
             THEN Consume(Tail(ys), [acc EXCEPT !.final = @ \cup {s.term}], processing)
             ELSE LET sts == StateSetIor([per_inst |-> acc.per_inst,
                                          needswork |-> acc.needswork], s.st)
                      loop == s.st.pc \in processing \/ s.st.pc \in DOMAIN acc.per_inst
                      again == \/ s.st.pc \in processing
                               \/ /\ s.st.pc \in DOMAIN acc.per_inst
                                  /\ sts.per_inst[s.st.pc] # acc.per_inst[s.st.pc]
                  IN  Consume(Tail(ys),
                              [per_inst |-> sts.per_inst, needswork |-> sts.needswork,
                               final |-> acc.final,
                               has_self_loop |-> acc.has_self_loop \/ loop,
                               reentered |-> acc.reentered \/ again],
                              processing)

\* a range that yields one value too many
InRangeOffByOne(n) == n <= MAX_STEPS

\* range(MAX_STEPS) still has a value for the pass counter
InRange(n) == n < MAX_STEPS

\* the classification after the for loop (the "*" of a converged run)
Classify(fin, hit, self_loop) ==
    IF ~hit /\ fin = {} /\ self_loop THEN fin \cup {"*"} ELSE fin

\* a pass begins: per_instruction copies needswork and clears it
BeginPass ==
    /\ apc = "loop"
    /\ InRange(i)
    /\ needswork # {}
    /\ processing_pcs' = needswork
    /\ work' = needswork
    /\ needswork' = {}
    /\ marked' = DOMAIN per_inst
    /\ apc' = "pass"
    /\ UNCHANGED << name, input, per_inst, i, final, hit_max_steps, has_self_loop,
                    reentered >>
    /\ UNCHANGED cvars
    /\ UNCHANGED uvars
    /\ UNCHANGED fvars

\* manystep reaches the next dirty PC of the pass (in the iteration order of
\* the set, which the program does not control), steps the state stored for
\* it now and the driver consumes what the step yields
StepPC ==
    /\ apc = "pass"
    /\ \E pc \in work :
         LET res == step(per_inst[pc], bc)
             acc == Consume(res.ys,
                            [per_inst |-> per_inst, needswork |-> needswork,
                             final |-> final, has_self_loop |-> has_self_loop,
                             reentered |-> reentered],
                            processing_pcs)
         IN  IF res.raised
             THEN /\ apc' = "raised"
                  /\ work' = work \ {pc}
                  /\ UNCHANGED << per_inst, needswork, final, has_self_loop, reentered >>
             ELSE /\ apc' = "pass"
                  /\ work' = work \ {pc}
                  /\ per_inst' = acc.per_inst
                  /\ needswork' = acc.needswork
                  /\ final' = acc.final
                  /\ has_self_loop' = acc.has_self_loop
                  /\ reentered' = acc.reentered
    /\ UNCHANGED << name, input, processing_pcs, i, hit_max_steps, marked >>
    /\ UNCHANGED cvars
    /\ UNCHANGED uvars
    /\ UNCHANGED fvars

\* manystep is exhausted: the for loop takes its next value
EndPass ==
    /\ apc = "pass"
    /\ work = {}
    /\ i' = i + 1
    /\ apc' = "loop"
    /\ UNCHANGED << name, input, per_inst, needswork, work, processing_pcs, final,
                    hit_max_steps, has_self_loop, reentered, marked >>
    /\ UNCHANGED cvars
    /\ UNCHANGED uvars
    /\ UNCHANGED fvars

\* "if not state_set.needswork: break", the classification and the return
Converged ==
    /\ apc = "loop"
    /\ InRange(i)
    /\ needswork = {}
    /\ final' = Classify(final, hit_max_steps, has_self_loop)
    /\ apc' = "done"
    /\ UNCHANGED << name, input, per_inst, needswork, work, processing_pcs, i,
                    hit_max_steps, has_self_loop, reentered, marked >>
    /\ UNCHANGED cvars
    /\ UNCHANGED uvars
    /\ UNCHANGED fvars

\* the else clause of the for loop, the classification and the return
Exhausted ==
    /\ apc = "loop"
    /\ ~InRange(i)
    /\ hit_max_steps' = TRUE
    /\ final' = Classify(final \cup {"*"}, TRUE, has_self_loop)
    /\ apc' = "done"
    /\ UNCHANGED << name, input, per_inst, needswork, work, processing_pcs, i,
                    has_self_loop, reentered, marked >>
    /\ UNCHANGED cvars
    /\ UNCHANGED uvars
    /\ UNCHANGED fvars

(***************************************************************************)
(* The concrete run: after the analysis has returned, step is called in a  *)
(* loop until it returns a terminal label, raises, or the step cap is hit. *)
(***************************************************************************)
RunStep ==
    /\ apc = "done"
    /\ cresult = ""
    /\ csteps < MaxConcreteSteps
    /\ LET r == cstep(cstate, entry.methods)
       IN  IF r.raised THEN cresult' = "raised" /\ UNCHANGED cstate
           ELSE IF r.term # "" THEN cresult' = r.term /\ UNCHANGED cstate
           ELSE cresult' = "" /\ cstate' = r.state
    /\ csteps' = csteps + 1
    /\ LET frame == cstate.frames[Len(cstate.frames)]
           opcodes == entry.methods[frame.pc.method]
           opr == opcodes[frame.pc.offset + 1]
       IN  IF frame.pc.offset < Len(opcodes)
              /\ opr.op \in {"InvokeStatic", "Return"}
              /\ ~cstep(cstate, entry.methods).raised
           THEN executed' = [executed EXCEPT ![opr.op] = @ + 1]
           ELSE UNCHANGED executed
    /\ UNCHANGED << name, input >>
    /\ UNCHANGED avars
    /\ UNCHANGED uvars
    /\ UNCHANGED fvars

RunCap ==
    /\ apc = "done"
    /\ cresult = ""
    /\ csteps = MaxConcreteSteps
    /\ cresult' = "*"
    /\ UNCHANGED << name, input, cstate, csteps, executed >>
    /\ UNCHANGED avars
    /\ UNCHANGED uvars
    /\ UNCHANGED fvars

ANext == BeginPass \/ StepPC \/ EndPass \/ Converged \/ Exhausted

Next == BeginPass \/ StepPC \/ EndPass \/ Converged \/ Exhausted \/ RunStep \/ RunCap

Spec == Init /\ [][Next]_vars

\* the driver and the run loop are sequential code: an enabled step is taken
\* The control part of a driver step: every step of ANext is a DriverStep
\* step that changes << apc, work >>, and DriverStep is enabled exactly while
\* the driver is inside abstract_interpretation.
DriverStep ==
    \/ apc = "loop" /\ apc' = "pass" /\ work' = needswork
    \/ apc = "loop" /\ apc' = "done" /\ work' = work
    \/ apc = "pass" /\ work = {} /\ apc' = "loop" /\ work' = work
    \/ apc = "pass" /\ apc' \in {"pass", "raised"} /\ \E pc \in work : work' = work \ {pc}

\* abstract_interpretation is a sequential function: while it has not
\* returned, its next statement is executed.
FairSpec == Init /\ [][Next]_vars /\ WF_<< apc, work >>(DriverStep)

(***************************************************************************)
(* The control-flow graph builder (group30/CFG.py).  A Node object is      *)
(* identified by its CFG and its start offset, the key under which         *)
(* CFG.nodes holds it.  G is the state shared by all CFG objects: the      *)
(* opcodes of the suite, CFG.registry, and two histories, one entry per    *)
(* block split and one per attach_edges call of generate_basic_node.       *)
(* The dicts are built with :> and @@, so that each one is a stored        *)
(* function before an EXCEPT updates it.                                   *)
(***************************************************************************)
\* byte_code = None, branch_opcode = None
NoOpcode == Opc("None", "", 0, 0, "")

\* the identity of the Node of CFG m that starts at offset_start
NodeId(m, offset_start) == [cfg |-> m, offset_start |-> offset_start]

\* Node.__init__
Node(offset_start, offset_end) ==
    [offset_start |-> offset_start, offset_end |-> offset_end,
     child_edges |-> << >>, byte_code |-> NoOpcode, split_child |-> None]

\* Edge.__init__; eval is 0 for False, 1 for True, or None
Edge(start_node, end_node, branch_opcode, eval) ==
    [start_node |-> start_node, end_node |-> end_node,
     branch_opcode |-> branch_opcode, eval |-> eval]

RECURSIVE get_active_tail(_, _)

\* Node.get_active_tail without the walk along split_child
get_active_tail_self(nodes, curr) == curr

\* Node.get_active_tail, on the nodes of one CFG
get_active_tail(nodes, curr) ==
    IF nodes[curr].split_child # None
    THEN get_active_tail(nodes, nodes[curr].split_child)
    ELSE curr

\* CFG.add_node
add_node(G, m, offset_start, offset_end) ==
    LET nodes == G.registry[m].nodes
    IN  IF offset_start \notin DOMAIN nodes
        THEN [G EXCEPT !.registry[m].nodes =
                          (offset_start :> Node(offset_start, offset_end)) @@ nodes]
        ELSE IF /\ offset_end # None
                /\ \/ nodes[offset_start].offset_end = None
                   \/ offset_end > nodes[offset_start].offset_end
        THEN [G EXCEPT !.registry[m].nodes[offset_start].offset_end = offset_end]
        ELSE G

\* CFG.generate_terminating_node
generate_terminating_node(G, m, offset_start, offset_end, byte_code) ==
    [add_node(G, m, offset_start, offset_end)
        EXCEPT !.registry[m].nodes[offset_start].byte_code = byte_code]

\* CFG.find_return_nodes: the start offsets of the final nodes that hold a
\* Return
find_return_nodes(cfg) ==
    { s \in DOMAIN cfg.nodes : cfg.nodes[s].byte_code.op = "Return" }

\* for each continuation node and each return node r of CFG m, in this
\* order: r.child_edges.append(Edge(r, cont_node, r.byte_code, None))
attach_return_edges(G, m, conts) ==
    LET cfg == G.registry[m]
        appended ==
            [s \in DOMAIN cfg.nodes |->
                IF s \in find_return_nodes(cfg)
                THEN [cfg.nodes[s] EXCEPT !.child_edges =
                         cfg.nodes[s].child_edges \o
                         [k \in 1..Len(conts) |->
                            Edge(NodeId(m, s), conts[k], cfg.nodes[s].byte_code, None)]]
                ELSE cfg.nodes[s]] @@ << >>
    IN  [G EXCEPT !.registry[m].nodes = appended]

\* CFG.finalize_pending_continuations that only clears the list
finalize_clear_only(G, m) ==
    [G EXCEPT !.registry[m].pending_continuations = << >>]

\* CFG.finalize_pending_continuations
finalize_pending_continuations(G, m) ==
    LET p == G.registry[m].pending_continuations
        first == { k \in 1..Len(p) : \A j \in 1..(k - 1) : p[j] # p[k] }
        visited_cont ==
            [c \in 1..Cardinality(first) |->
                p[CHOOSE k \in first : Cardinality({ j \in first : j < k }) = c - 1]]
            @@ << >>
    IN  [attach_return_edges(G, m, visited_cont)
            EXCEPT !.registry[m].pending_continuations = << >>]

\* CFG.resolve_overlapping_blocks: every node that reaches into the node
\* that follows it in the order of the start offsets is cut before it
resolve_overlapping_blocks(G, m) ==
    LET nodes == G.registry[m].nodes
        later(s) == { t \in DOMAIN nodes : t > s }
        next(s) == CHOOSE t \in later(s) : \A u \in later(s) : t <= u
        resolved ==
            [s \in DOMAIN nodes |->
                IF later(s) # {} /\ nodes[s].offset_end >= next(s)
                THEN [nodes[s] EXCEPT
                        !.offset_end = next(s) - 1,
                        !.byte_code = NoOpcode,
                        !.child_edges =
                            << Edge(NodeId(m, s), NodeId(m, next(s)), NoOpcode, None) >>]
                ELSE nodes[s]] @@ << >>
    IN  [G EXCEPT !.registry[m].nodes = resolved]

RECURSIVE build(_, _, _, _)
RECURSIVE generate_basic_node(_, _, _, _, _, _, _)
RECURSIVE CFGInit(_, _)

\* CFG.generate_basic_node; build never passes it an InvokeStatic
generate_basic_node(G, m, offset_start, target, byte_code, pc, branching) ==
    LET node == NodeId(m, offset_start)
        G0 == add_node(G, m, offset_start, pc)
        nodes == G0.registry[m].nodes
        jump == << Edge(node, NodeId(m, target), byte_code, None) >>
        built ==
            IF branching
            THEN LET G1 == build(G0, m, pc + 1, pc + 1)
                 IN  [G |-> build(G1, m, target, target),
                      edges |-> << Edge(node, NodeId(m, pc + 1), byte_code, 0),
                                   Edge(node, NodeId(m, target), byte_code, 1) >>]
            ELSE IF pc > target
            THEN IF target \in DOMAIN nodes
                 THEN [G |-> G0, edges |-> jump]
                 ELSE LET inside == { s \in DOMAIN nodes :
                                        s < target /\ target <= nodes[s].offset_end }
                          a == CHOOSE s \in inside : \A u \in inside : s <= u
                          n == nodes[a]
                          lower_half ==
                              [Node(target, n.offset_end) EXCEPT
                                  !.child_edges = n.child_edges,
                                  !.byte_code = n.byte_code]
                          upper_half ==
                              [n EXCEPT
                                  !.offset_end = target - 1,
                                  !.byte_code = NoOpcode,
                                  !.split_child = target,
                                  !.child_edges =
                                      << Edge(NodeId(m, a), NodeId(m, target),
                                              NoOpcode, None) >>]
                          after == (a :> upper_half) @@ (target :> lower_half) @@ nodes
                      IN  [G |-> [G0 EXCEPT
                                    !.registry[m].nodes = after,
                                    !.splits = Append(@,
                                        [cfg |-> m, target |-> target, B |-> n,
                                         nodes |-> after, jump |-> jump])],
                           edges |-> jump]
            ELSE [G |-> build(G0, m, target, target), edges |-> jump]
        nodes2 == built.G.registry[m].nodes
        active_node == get_active_tail(nodes2, offset_start)
    IN  [built.G EXCEPT
            !.registry[m].nodes[active_node].child_edges = built.edges,
            !.attaches = Append(@,
                [cfg |-> m, node |-> offset_start, to |-> active_node,
                 split_child |-> [s \in DOMAIN nodes2 |-> nodes2[s].split_child] @@ << >>])]

\* CFG.build: the walk from pc to the next opcode that ends a block
build(G, m, pc, offset_start) ==
    LET code == G.methods[m]
        bc_length == Len(code)
        ends == { o \in pc..(bc_length - 1) :
                    code[o + 1].op \in {"If", "Ifz", "Goto", "Return",
                                        "InvokeSpecial", "InvokeStatic"} }
        at == CHOOSE o \in ends : \A u \in ends : o <= u
        opr == code[at + 1]
        throws == { o \in at..(bc_length - 1) : code[o + 1].op = "Throw" }
        throw == CHOOSE o \in throws : \A u \in throws : o <= u
        callsite_node == NodeId(m, offset_start)
        continuation_node == NodeId(m, at + 1)
        continued == build(add_node(G, m, offset_start, at), m, at + 1, at + 1)
        callee == opr.s
    IN  IF ends = {} THEN add_node(G, m, offset_start, bc_length)
        ELSE IF opr.op \in {"If", "Ifz"}
        THEN generate_basic_node(G, m, offset_start, opr.a, opr, at, TRUE)
        ELSE IF opr.op = "Goto"
        THEN generate_basic_node(G, m, offset_start, opr.a, opr, at, FALSE)
        ELSE IF opr.op = "Return"
        THEN generate_terminating_node(G, m, offset_start, at, opr)
        ELSE IF opr.op = "InvokeSpecial"
        THEN generate_terminating_node(G, m, offset_start, throw, code[throw + 1])
        ELSE IF callee = m
        THEN \* the CFG is still building: the continuation is deferred
             [continued EXCEPT
                !.registry[m].nodes[offset_start].child_edges =
                    Append(@, Edge(callsite_node, NodeId(m, continued.registry[m].init_node),
                                   opr, None)),
                !.registry[m].pending_continuations =
                    IF continuation_node \in { @[k] : k \in DOMAIN @ } THEN @
                    ELSE Append(@, continuation_node)]
        ELSE LET G3 == IF callee \in DOMAIN continued.registry THEN continued
                       ELSE CFGInit(continued, callee)
                 G4 == [G3 EXCEPT
                          !.registry[m].nodes[offset_start].child_edges =
                              Append(@, Edge(callsite_node,
                                             NodeId(callee, G3.registry[callee].init_node),
                                             opr, None))]
             IN  IF ~G4.registry[callee].building
                 THEN attach_return_edges(G4, callee, << continuation_node >>)
                 ELSE [G4 EXCEPT !.registry[callee].pending_continuations =
                                     Append(@, continuation_node)]

\* CFG.generate_cfg
generate_cfg(G, m) ==
    LET entered == add_node(G, m, 0, None)
        started == [entered EXCEPT !.registry[m].init_node = 0,
                                 !.registry[m].building = TRUE]
        ended == [build(started, m, 0, 0) EXCEPT !.registry[m].building = FALSE]
    IN  finalize_pending_continuations(resolve_overlapping_blocks(ended, m), m)

\* CFG.__init__: the CFG is registered, then built
CFGInit(G, m) ==
    generate_cfg([G EXCEPT !.registry =
                     (m :> [nodes |-> << >>, init_node |-> None, building |-> FALSE,
                            pending_continuations |-> << >>]) @@ @], m)

\* while (c) {}
WhileLoop ==
    [main |-> << Load("int", 0), Ifz("eq", 4), Incr(0, 1), Goto(0), Return("void") >>]

\* int i = 0; while (true) { i = 5; while (i != 0) i--; }
NestedLoops ==
    [main |-> << Push(0), Store("int", 0), Load("int", 0), Ifz("eq", 6),
                 Incr(0, -1), Goto(2), Goto(1) >>]

\* if (n == 0) s = 1; else s = 2; return;
Join ==
    [main |-> << Load("int", 0), Ifz("ne", 4), Push(1), Goto(5), Push(2),
                 Return("void") >>]

\* nop(); nop();
CallTwice ==
    [main |-> << InvokeStatic("nop", 0), InvokeStatic("nop", 0), Return("void") >>,
     nop |-> << Return("void") >>]

\* int f(int n) { if (n == 0) return 0; return f(n); }
SelfRecursive ==
    [main |-> << Load("int", 0), Ifz("eq", 5), Load("int", 0), InvokeStatic("main", 1),
                 Return("int"), Push(0), Return("int") >>]

\* void even(int n) { if (n == 0) return; odd(n); }   void odd(int n) { even(n); }
MutuallyRecursive ==
    [main |-> << Load("int", 0), Ifz("eq", 4), InvokeStatic("odd", 0), Return("void"),
                 Return("void") >>,
     odd |-> << InvokeStatic("main", 0), Return("void") >>]

\* int i = 0; do { } while (nop(i) == 0) written with a backward Goto
LoopCall ==
    [main |-> << Push(0), Load("int", 0), InvokeStatic("id", 1), Ifz("eq", 5),
                 Goto(1), Return("void") >>,
     id |-> << Load("int", 0), Return("int") >>]

\* int fib(int n) { return n < 2 ? n : fib(n - 1) + fib(n - 2); }
RecursiveFib ==
    [main |-> << Load("int", 0), Push(2), If("ge", 5), Load("int", 0), Return("int"),
                 Load("int", 0), InvokeStatic("main", 1), Load("int", 0),
                 InvokeStatic("main", 1), Binary("Add"), Return("int") >>]

\* the suites whose CFG is built: those of the catalogue on which the
\* construction returns, and the loops and calls above
CfgSuites ==
    [DivByParam |-> DivByParam.methods, AssertPositive |-> AssertPositive.methods,
     Diamond |-> Diamond.methods, BranchHeap |-> BranchHeap.methods,
     LoopThenArray |-> LoopThenArray.methods, CountLoop |-> CountLoop.methods,
     CallThenDiv |-> CallThenDiv.methods, ThrowNull |-> ThrowNull.methods,
     Unstable |-> Unstable.methods, Call2 |-> Call2.methods,
     CallVoid |-> CallVoid.methods, ArrayOOB |-> ArrayOOB.methods,
     WhileLoop |-> WhileLoop, NestedLoops |-> NestedLoops, Join |-> Join,
     CallTwice |-> CallTwice, SelfRecursive |-> SelfRecursive,
     MutuallyRecursive |-> MutuallyRecursive, LoopCall |-> LoopCall,
     RecursiveFib |-> RecursiveFib]

(***************************************************************************)
(* Unit runs: one function of the interval lattice or one case of the      *)
(* abstract step is applied to arguments drawn from bounded sets.          *)
(***************************************************************************)
\* the constant sets carried by the argument intervals
UnitKs == { {}, {-1, 1} }

\* Interval.empty(), and the non-empty intervals with bounds in
\* -MaxAbs..MaxAbs or infinite, with each constant set
UnitIntervals ==
    {IntervalEmpty} \cup
    { init_K(Interval(b[1], b[2]), K) :
        b \in { q \in ({NEG_INF} \cup { Fin(n) : n \in (0 - MaxAbs)..MaxAbs })
                       \X ({POS_INF} \cup { Fin(n) : n \in (0 - MaxAbs)..MaxAbs }) :
                  BLe(q[1], q[2]) },
        K \in UnitKs }

\* the finite integer sets handed to Interval.abstract
UnitSets == SUBSET ((0 - MaxAbs)..MaxAbs)

\* the conditions of Ifz
Conds == {"eq", "ne", "lt", "ge", "gt", "le"}

UnitFns == {"Ifz", "Div", "__or__", "__and__", "test_interval_abstraction_valid",
            "test_interval_abstraction_distributes", "test_interval_abstraction_add",
            "widening", "CFG", "Binary", "Incr"}

UnitArgs(f) ==
    CASE f = "Ifz" -> [c : Conds, x : UnitIntervals]
      [] f = "Div" -> [v1 : UnitIntervals, v2 : UnitIntervals]
      [] f \in {"__or__", "__and__"} -> [x : UnitIntervals, y : UnitIntervals]
      [] f = "test_interval_abstraction_valid" -> [xs : UnitSets]
      [] f = "widening" -> [x : UnitIntervals]
      [] f = "CFG" -> [suite : DOMAIN CfgSuites]
      [] f = "Binary" -> [opr : {"Add", "Sub", "Mul", "Rem"},
                          v1 : UnitIntervals, v2 : UnitIntervals]
      [] f = "Incr" -> [x : UnitIntervals, amount : {-1, 1}]
      [] OTHER -> [xs : UnitSets, ys : UnitSets]

\* the frame a step case is applied to: local 0 = [7, 7], and the operand
\* [3, 3] below the operands of the opcode
UnitLocals == [k \in {0} |-> int_interval(Interval(Fin(7), Fin(7)))]

UnitBelow == int_interval(Interval(Fin(3), Fin(3)))

UnitState(operands) ==
    AState(<< PerVarFrame(UnitLocals, << UnitBelow >> \o operands) >>, PC("main", 0))

\* a method that starts with opr
UnitBc(opr) ==
    [methods |-> [main |-> << opr, Return("void"), Return("void") >>], K |-> {}]

\* the analyzer does not run during a unit run
Idle ==
    /\ name = "InfiniteLoop"
    /\ input = << >>
    /\ per_inst = initialstate_from_method(<< >>, {}).per_inst
    /\ needswork = initialstate_from_method(<< >>, {}).needswork
    /\ work = {}
    /\ processing_pcs = {}
    /\ i = 0
    /\ final = {}
    /\ hit_max_steps = FALSE
    /\ has_self_loop = FALSE
    /\ reentered = FALSE
    /\ marked = {}
    /\ apc = "idle"
    /\ cstate = initial_cstate(<< >>, << >>)
    /\ cresult = ""
    /\ csteps = 0
    /\ executed = [InvokeStatic |-> 0, Return |-> 0]

UnitInit ==
    /\ Idle
    /\ FuzzOff
    /\ fn \in UnitFns
    /\ args \in UnitArgs(fn)
    /\ out = NoOut
    /\ gen = GenOff
    /\ construction = NotBuilding

\* the unit run returns res
Returns(res) ==
    /\ ~out.done
    /\ out' = res
    /\ UNCHANGED << name, input, fn, args, gen, construction >>
    /\ UNCHANGED avars
    /\ UNCHANGED cvars
    /\ UNCHANGED fvars

\* step on a state whose top of stack is x, at an Ifz(c, 2)
ApplyIfz ==
    /\ fn = "Ifz"
    /\ Returns([done |-> TRUE,
                res |-> step(UnitState(<< int_interval(args.x) >>),
                             UnitBc(Ifz(args.c, 2)))])

\* step on a state whose two top operands are v1 and v2, at a Binary Div
ApplyDiv ==
    /\ fn = "Div"
    /\ Returns([done |-> TRUE,
                res |-> step(UnitState(<< int_interval(args.v1), int_interval(args.v2) >>),
                             UnitBc(Binary("Div")))])

\* step on a state whose two top operands are v1 and v2, at a Binary Add,
\* Sub, Mul or Rem
ApplyBinary ==
    /\ fn = "Binary"
    /\ Returns([done |-> TRUE,
                res |-> step(UnitState(<< int_interval(args.v1), int_interval(args.v2) >>),
                             UnitBc(Binary(args.opr)))])

\* step on a state whose local 0 is x, at an Incr of local 0
ApplyIncr ==
    /\ fn = "Incr"
    /\ Returns([done |-> TRUE,
                res |-> step(AState(<< PerVarFrame([k \in {0} |-> int_interval(args.x)],
                                                   << >>) >>, PC("main", 0)),
                             UnitBc(Incr(0, args.amount)))])

\* x | y
ApplyOr ==
    /\ fn = "__or__"
    /\ Returns([done |-> TRUE, v |-> IntervalOr(args.x, args.y)])

\* x & y
ApplyAnd ==
    /\ fn = "__and__"
    /\ Returns([done |-> TRUE, v |-> IntervalAnd(args.x, args.y)])

\* r = Interval.abstract(xs), and Interval.concrete(r)
test_interval_abstraction_valid ==
    /\ fn = "test_interval_abstraction_valid"
    /\ Returns([done |-> TRUE, r |-> IntervalAbstract(args.xs),
                concrete |-> IntervalConcrete(IntervalAbstract(args.xs))])

\* the two sides of the equality the test asserts
test_interval_abstraction_distributes ==
    /\ fn = "test_interval_abstraction_distributes"
    /\ Returns([done |-> TRUE,
                lhs |-> IntervalOr(IntervalAbstract(args.xs), IntervalAbstract(args.ys)),
                rhs |-> IntervalAbstract(args.xs \cup args.ys)])

\* r = Interval.abstract(xs) + Interval.abstract(ys)
test_interval_abstraction_add ==
    /\ fn = "test_interval_abstraction_add"
    /\ Returns([done |-> TRUE,
                r |-> IntervalAdd(IntervalAbstract(args.xs), IntervalAbstract(args.ys))])

\* stored = stored.widening(y), for the next interval y of an ascending
\* sequence; the stored interval starts as x, and changes counts the merges
\* that changed it
ApplyWidening ==
    /\ fn = "widening"
    /\ \E y \in UnitIntervals :
         /\ out.done => IntervalLe(out.last, y)
         /\ LET stored == IF out.done THEN out.v ELSE args.x
                changes == IF out.done THEN out.changes ELSE 0
                merged == widening(stored, y)
            IN  out' = [done |-> TRUE, v |-> merged, last |-> y,
                        changes |-> changes + (IF merged # stored THEN 1 ELSE 0)]
    /\ UNCHANGED << name, input, fn, args, gen, construction >>
    /\ UNCHANGED avars
    /\ UNCHANGED cvars
    /\ UNCHANGED fvars

\* cfg = CFG(suite, methodid) on an empty registry
ApplyCFG ==
    /\ fn = "CFG"
    /\ \E methods \in {CfgSuites[args.suite]} :
         Returns([done |-> TRUE,
                  G |-> CFGInit([methods |-> methods, registry |-> << >>,
                                 splits |-> << >>, attaches |-> << >>], "main")])

UnitNext ==
    \/ ApplyCFG
    \/ ApplyWidening
    \/ ApplyIfz
    \/ ApplyDiv
    \/ ApplyBinary
    \/ ApplyIncr
    \/ ApplyOr
    \/ ApplyAnd
    \/ test_interval_abstraction_valid
    \/ test_interval_abstraction_distributes
    \/ test_interval_abstraction_add

UnitSpec == UnitInit /\ [][UnitNext]_vars

(***************************************************************************)
(* The fuzzing supervisor and its worker (group30/fuzzer_full/main.py).    *)
(* FullStrategy.run starts fuzz_loop in a thread, waits for it with a      *)
(* timeout, sets stop_event if the thread is still alive, waits for it     *)
(* again and prints the wager.  The two threads interleave at every access *)
(* to what they share: stop_event, outputs_encountered and final_states.   *)
(* What analyze_method and interpreter.run return, and how many inputs the *)
(* generators yield, are drawn from bounded sets.                          *)
(***************************************************************************)
\* the terminal labels of the concrete step
TerminalLabels == {"ok", "divide by zero", "assertion error", "out of bounds", "null pointer"}

\* the outcome strings PercentWager.set_value accepts
WagerLabels == TerminalLabels \cup {"*"}

\* the most inputs get_static_variables_combinations returns
MaxStaticInputs == 2

\* the most inputs generate_every_input_combination returns
MaxIntervalInputs == 2

\* the parameter lists of the fuzzed methods
FuzzSignatures == { [params |-> << >>], [params |-> << "int" >>] }

\* what analyze_method does: it raises, or returns a set of outcomes
AnalysisResults ==
    { [raised |-> TRUE, final_states |-> {}] } \cup
    { [raised |-> FALSE, final_states |-> f] : f \in SUBSET {"ok", "assertion error"} }

\* what interpreter.run does: it raises, or returns an outcome of the method,
\* or "not done" when it has seen the flag set
RunResults(flag) ==
    {"raised", "ok", "divide by zero"} \cup (IF flag THEN {"not done"} ELSE {})

\* the values of the wager in hundredths, which is what print_wager prints
\* before the "%": 0.01, 0.7 and 1.0
InitialValue == 1

PredictedValue == 70

ObservedValue == 100

\* PercentWager.__init__
PercentWager == [label \in WagerLabels |-> InitialValue]

\* "for label in labels: percent_wager.set_value(label, value)"
set_value(self, labels, value) ==
    [label \in WagerLabels |-> IF label \in labels THEN value ELSE self[label]]

\* PercentWager.print_wager: one line per label, the value as a percentage
print_wager(self) ==
    [label \in {"*", "assertion error", "divide by zero", "null pointer", "ok",
                "out of bounds"} |-> self[label]]

\* the two loops in the other order: the predicted value is set last
adjust_wager_reversed(finals, outputs) ==
    LET kept == outputs \ {"not done"}
    IN  [raised |-> ~((finals \cup kept) \subseteq WagerLabels),
         passed |-> finals \cup kept,
         percent_wager |-> set_value(set_value(PercentWager, kept, ObservedValue),
                                     finals, PredictedValue)]

\* "Adjust wager based on outputs encountered": every end_state of
\* final_states is set to 0.7, then every output but "not done" to 1.0;
\* set_value raises ValueError on a label it does not know
adjust_wager(finals, outputs) ==
    LET kept == outputs \ {"not done"}
    IN  [raised |-> ~((finals \cup kept) \subseteq WagerLabels),
         passed |-> finals \cup kept,
         percent_wager |-> set_value(set_value(PercentWager, finals, PredictedValue),
                                     kept, ObservedValue)]

\* t.is_alive(): the thread has been started and has not terminated
is_alive == wpc \in {"analyze", "head", "call", "running"}

\* a join that returns at once
join_no_wait(running, elapsed) == TRUE

\* Thread.join: returns when the thread has terminated or the timeout has
\* elapsed; a join without timeout never has elapsed
join(running, elapsed) == ~running \/ elapsed

wvars == << static_method_inputs, interval_inputs, outputs_encountered, final_states,
            wpc, phase >>

svars == << stop_event, spc, alive, printed, exit_code, at_cancel >>

others == << name, input, avars, cvars, uvars, method_signature >>

FuzzInit ==
    /\ Idle
    /\ fn = ""
    /\ args = << >>
    /\ out = NoOut
    /\ gen = GenOff
    /\ construction = NotBuilding
    /\ method_signature \in FuzzSignatures
    /\ static_method_inputs \in 0..MaxStaticInputs
    /\ interval_inputs = 0
    /\ stop_event = FALSE
    /\ outputs_encountered = {}
    /\ final_states = {}
    /\ wpc = "off"
    /\ phase = ""
    /\ spc = "start"
    /\ alive = FALSE
    /\ printed = NoOutput
    /\ exit_code = None
    /\ at_cancel = {}

\* t.start()
ThreadStart ==
    /\ spc = "start"
    /\ wpc' = "analyze"
    /\ spc' = "join_timeout"
    /\ UNCHANGED << static_method_inputs, interval_inputs, outputs_encountered,
                    final_states, phase >>
    /\ UNCHANGED << stop_event, alive, printed, exit_code, at_cancel >>
    /\ UNCHANGED others

\* t.join(timeout=10)
JoinTimeout ==
    /\ spc = "join_timeout"
    /\ \E elapsed \in BOOLEAN : join(is_alive, elapsed)
    /\ spc' = "is_alive"
    /\ UNCHANGED << stop_event, alive, printed, exit_code, at_cancel >>
    /\ UNCHANGED wvars
    /\ UNCHANGED others

\* "if t.is_alive():"
IsAlive ==
    /\ spc = "is_alive"
    /\ alive' = is_alive
    /\ spc' = IF is_alive THEN "set" ELSE "wager"
    /\ UNCHANGED << stop_event, printed, exit_code, at_cancel >>
    /\ UNCHANGED wvars
    /\ UNCHANGED others

\* stop_event.set()
StopEventSet ==
    /\ spc = "set"
    /\ stop_event' = TRUE
    /\ at_cancel' = outputs_encountered
    /\ spc' = "join"
    /\ UNCHANGED << alive, printed, exit_code >>
    /\ UNCHANGED wvars
    /\ UNCHANGED others

\* t.join()
JoinThread ==
    /\ spc = "join"
    /\ join(is_alive, FALSE)
    /\ spc' = "wager"
    /\ UNCHANGED << stop_event, alive, printed, exit_code, at_cancel >>
    /\ UNCHANGED wvars
    /\ UNCHANGED others

\* the wager is computed from final_states and outputs_encountered and
\* printed, and the process exits with 0; a ValueError of set_value ends the
\* process with 1 and nothing printed
PrintWager ==
    /\ spc = "wager"
    /\ LET w == adjust_wager(final_states, outputs_encountered)
       IN  IF w.raised
           THEN /\ exit_code' = 1
                /\ UNCHANGED printed
           ELSE /\ exit_code' = 0
                /\ printed' = [done |-> TRUE, lines |-> print_wager(w.percent_wager),
                               passed |-> w.passed]
    /\ spc' = "exited"
    /\ UNCHANGED << stop_event, alive, at_cancel >>
    /\ UNCHANGED wvars
    /\ UNCHANGED others

\* analyze_method returns and final_states is updated, or it raises; a
\* method without parameters goes on to its single run
AnalyzeMethod ==
    /\ wpc = "analyze"
    /\ \E res \in AnalysisResults :
         IF res.raised
         THEN /\ wpc' = "raised"
              /\ UNCHANGED << final_states, phase >>
         ELSE /\ final_states' = final_states \cup res.final_states
              /\ phase' = IF method_signature.params = << >> THEN "noparams" ELSE "static"
              /\ wpc' = IF method_signature.params = << >> THEN "call" ELSE "head"
    /\ UNCHANGED << static_method_inputs, interval_inputs, outputs_encountered >>
    /\ UNCHANGED svars
    /\ UNCHANGED others

\* "while not stop_event.is_set() and static_method_inputs:" pops an input;
\* after the loop the interval inputs are generated
StaticInputs ==
    /\ wpc = "head"
    /\ phase = "static"
    /\ IF ~stop_event /\ static_method_inputs > 0
       THEN /\ static_method_inputs' = static_method_inputs - 1
            /\ wpc' = "call"
            /\ UNCHANGED << interval_inputs, phase >>
       ELSE /\ \E n \in 0..MaxIntervalInputs : interval_inputs' = n
            /\ phase' = "intervals"
            /\ UNCHANGED << static_method_inputs, wpc >>
    /\ UNCHANGED << outputs_encountered, final_states >>
    /\ UNCHANGED svars
    /\ UNCHANGED others

\* "for method_input in interval_inputs: if stop_event.is_set(): break"
IntervalInputs ==
    /\ wpc = "head"
    /\ phase = "intervals"
    /\ IF interval_inputs > 0 /\ ~stop_event
       THEN /\ interval_inputs' = interval_inputs - 1
            /\ wpc' = "call"
            /\ UNCHANGED phase
       ELSE /\ phase' = "central"
            /\ UNCHANGED << interval_inputs, wpc >>
    /\ UNCHANGED << static_method_inputs, outputs_encountered, final_states >>
    /\ UNCHANGED svars
    /\ UNCHANGED others

\* "for generated_input in fair_product(*generators): if stop_event.is_set():
\* break": the product yields one more input or is exhausted
CentralExpansion ==
    /\ wpc = "head"
    /\ phase = "central"
    /\ \E more \in BOOLEAN :
         wpc' = IF more /\ ~stop_event THEN "call" ELSE "returned"
    /\ UNCHANGED << static_method_inputs, interval_inputs, outputs_encountered,
                    final_states, phase >>
    /\ UNCHANGED svars
    /\ UNCHANGED others

\* interpreter.run(self.method_signature, method_input, stop_event) is called
RunCall ==
    /\ wpc = "call"
    /\ wpc' = "running"
    /\ UNCHANGED << static_method_inputs, interval_inputs, outputs_encountered,
                    final_states, phase >>
    /\ UNCHANGED svars
    /\ UNCHANGED others

\* interpreter.run returns and its outcome is added to outputs_encountered,
\* or it raises; the run of a method without parameters is the last
RunReturn ==
    /\ wpc = "running"
    /\ \E r \in RunResults(stop_event) :
         IF r = "raised"
         THEN /\ wpc' = "raised"
              /\ UNCHANGED outputs_encountered
         ELSE /\ outputs_encountered' = outputs_encountered \cup {r}
              /\ wpc' = IF phase = "noparams" THEN "returned" ELSE "head"
    /\ UNCHANGED << static_method_inputs, interval_inputs, final_states, phase >>
    /\ UNCHANGED svars
    /\ UNCHANGED others

\* FullStrategy.run, in the main thread
Supervisor ==
    ThreadStart \/ JoinTimeout \/ IsAlive \/ StopEventSet \/ JoinThread \/ PrintWager

\* fuzz_loop, in the thread t
Worker ==
    AnalyzeMethod \/ StaticInputs \/ IntervalInputs \/ CentralExpansion \/ RunCall \/ RunReturn

FuzzNext ==
    \/ ThreadStart
    \/ JoinTimeout
    \/ IsAlive
    \/ StopEventSet
    \/ JoinThread
    \/ PrintWager
    \/ AnalyzeMethod
    \/ StaticInputs
    \/ IntervalInputs
    \/ CentralExpansion
    \/ RunCall
    \/ RunReturn

FuzzSpec == FuzzInit /\ [][FuzzNext]_vars

\* both threads are scheduled: a thread that can take a step takes one
FairFuzzSpec == FuzzSpec /\ WF_vars(Supervisor) /\ WF_vars(Worker)

(***************************************************************************)
(* central_expansion.fair_product.                                         *)
(***************************************************************************)
\* the m-th value (from 0) of ints(): 0, 1, -1, 2, -2, ...
ints(m) == IF m % 2 = 1 THEN (m + 1) \div 2 ELSE 0 - (m \div 2)

\* a finite source of n values: n, n - 1, ..., 1
ListSource(n) == [finite |-> TRUE, items |-> [j \in 1..n |-> n + 1 - j]]

IntsSource == [finite |-> FALSE, items |-> << >>]

ProductSources == { ListSource(n) : n \in 0..MaxSourceLen } \cup {IntsSource}

\* the tuples of at most MaxSources sources
SourceTuples == UNION { [1..k -> ProductSources] : k \in 0..MaxSources }

\* next(it) after m values have been pulled: the value, or StopIteration
NextOf(source, m) ==
    IF source.finite /\ m >= Len(source.items)
    THEN [stop |-> TRUE, value |-> 0]
    ELSE [stop |-> FALSE,
          value |-> IF source.finite THEN source.items[m + 1] ELSE ints(m)]

RECURSIVE backtrack(_, _, _, _)
RECURSIVE backtrack_from(_, _, _, _, _)
\* _index_tuples_with_max_r.backtrack: pos = Len(idx)
backtrack(lengths, r, idx, has_r) ==
    IF Len(idx) = Len(lengths)
    THEN (IF has_r THEN << idx >> ELSE << >>)
    ELSE backtrack_from(lengths, r, idx, has_r, 0)

\* the loop "for v in range(max_i + 1)" of backtrack from v on
backtrack_from(lengths, r, idx, has_r, v) ==
    LET len == lengths[Len(idx) + 1]
        max_i == IF len - 1 < r THEN len - 1 ELSE r
    IN  IF v > max_i THEN << >>
        ELSE backtrack(lengths, r, Append(idx, v), has_r \/ v = r)
               \o backtrack_from(lengths, r, idx, has_r, v + 1)

\* _index_tuples_with_max_r(lengths, r), in the order it yields
index_tuples_with_max_r(lengths, r) == backtrack(lengths, r, << >>, FALSE)

RECURSIVE Pull(_, _, _)
\* "while not done[i] and len(pools[i]) <= r": the pool and the done flag of
\* one dimension after the loop
Pull(source, dim, r) ==
    IF dim.done \/ Len(dim.pool) > r THEN dim
    ELSE IF NextOf(source, Len(dim.pool)).stop THEN [dim EXCEPT !.done = TRUE]
    ELSE Pull(source, [dim EXCEPT !.pool = Append(@, NextOf(source, Len(@)).value)], r)

\* fair_product(*sources), called and not yet advanced
ProductInit ==
    /\ Idle
    /\ FuzzOff
    /\ fn = "fair_product"
    /\ args \in [sources : SourceTuples]
    /\ out = NoOut
    /\ construction = NotBuilding
    /\ gen = [pc |-> "fill",
              pools |-> [k \in DOMAIN args.sources |-> << >>],
              done |-> [k \in DOMAIN args.sources |-> FALSE],
              r |-> 0,
              first_yielded |-> FALSE,
              any_yielded |-> FALSE,
              pending |-> << >>,
              yielded |-> << >>]

GenStep(g) ==
    /\ gen' = g
    /\ UNCHANGED << name, input, fn, args, out, construction >>
    /\ UNCHANGED avars
    /\ UNCHANGED cvars
    /\ UNCHANGED fvars

\* the head of the while loop: fill the pools up to r + 1 values, return when
\* the product is empty, else compute the index tuples of round r
Fill ==
    /\ gen.pc = "fill"
    /\ LET dims == [k \in DOMAIN args.sources |->
                      Pull(args.sources[k],
                           [pool |-> gen.pools[k], done |-> gen.done[k]], gen.r)]
           pools == [k \in DOMAIN dims |-> dims[k].pool]
           done == [k \in DOMAIN dims |-> dims[k].done]
           lengths == [k \in DOMAIN dims |-> Len(pools[k])]
       IN  IF ~gen.first_yielded
              /\ \E k \in DOMAIN dims : lengths[k] = 0 /\ done[k]
           THEN GenStep([gen EXCEPT !.pools = pools, !.done = done, !.pc = "returned"])
           ELSE GenStep([gen EXCEPT !.pools = pools, !.done = done,
                                    !.any_yielded = FALSE,
                                    !.pending = index_tuples_with_max_r(lengths, gen.r),
                                    !.pc = "yield"])

\* yield tuple(pools[i][idx] for i, idx in enumerate(idxs))
Yield ==
    /\ gen.pc = "yield"
    /\ gen.pending # << >>
    /\ LET idxs == Head(gen.pending)
       IN  GenStep([gen EXCEPT
                      !.pending = Tail(@),
                      !.first_yielded = TRUE,
                      !.any_yielded = TRUE,
                      !.yielded = Append(@,
                          [idxs |-> idxs, round |-> gen.r,
                           value |-> [k \in DOMAIN idxs |-> gen.pools[k][idxs[k] + 1]]])])

\* the end of a round: break when everything is exhausted and nothing was
\* yielded, else r += 1
EndRound ==
    /\ gen.pc = "yield"
    /\ gen.pending = << >>
    /\ IF (\A k \in DOMAIN gen.done : gen.done[k]) /\ ~gen.any_yielded
       THEN GenStep([gen EXCEPT !.pc = "returned"])
       ELSE /\ gen.r < MaxRadius
            /\ GenStep([gen EXCEPT !.r = @ + 1, !.pc = "fill"])

ProductNext == Fill \/ Yield \/ EndRound

ProductSpec == ProductInit /\ [][ProductNext]_vars

\* the consumer keeps calling next() on the generator
FairProductSpec == ProductSpec /\ WF_vars(ProductNext)

(***************************************************************************)
(* The recursion of CFG.build.                                             *)
(***************************************************************************)
\* the opcodes a generated method is made of; targets lie inside the method
BodyOpcodes(len) ==
    {Push(0), Return("void"), InvokeStatic("main", 0)}
        \cup { Goto(t) : t \in 0..(len - 1) }
        \cup { Ifz("eq", t) : t \in 0..(len - 1) }

\* every method of at most MaxBody opcodes followed by a Return
GeneratedSuites ==
    UNION { { [main |-> body \o << Return("void") >>] :
                body \in [1..n -> BodyOpcodes(n + 1)] } : n \in 1..MaxBody }

\* the suites a construction is run on
BuildSuites ==
    GeneratedSuites
        \cup {WhileLoop, NestedLoops, CallTwice, SelfRecursive, MutuallyRecursive,
              LoopCall, RecursiveFib, InfiniteLoop.methods}

\* a call of self.build(pc, pc.offset), or of CFG(suite, callee) when ctor
BuildCall(ctor, m, offset) == [ctor |-> ctor, method |-> m, offset |-> offset]

\* the calls that build(pc) of method m makes, in order: it walks to the
\* first opcode that ends a block and recurses as that opcode demands
BuildCalls(methods, m, pc) ==
    LET code == methods[m]
        ends == { o \in pc..(Len(code) - 1) :
                    code[o + 1].op \in {"If", "Ifz", "Goto", "Return",
                                        "InvokeSpecial", "InvokeStatic"} }
        at == CHOOSE o \in ends : \A u \in ends : o <= u
        opr == code[at + 1]
    IN  IF ends = {} THEN << >>
        ELSE IF opr.op \in {"If", "Ifz"}
        THEN << BuildCall(FALSE, m, at + 1), BuildCall(FALSE, m, opr.a) >>
        ELSE IF opr.op = "Goto"
        THEN (IF at > opr.a THEN << >> ELSE << BuildCall(FALSE, m, opr.a) >>)
        ELSE IF opr.op = "InvokeStatic"
        THEN (IF opr.s = m THEN << BuildCall(FALSE, m, at + 1) >>
              ELSE << BuildCall(FALSE, m, at + 1), BuildCall(TRUE, opr.s, 0) >>)
        ELSE << >>

\* CFG(suite, "main"): the CFG is registered, generate_cfg has called build
BuildInit ==
    /\ Idle
    /\ FuzzOff
    /\ fn = "CFG.build"
    /\ args \in [methods : BuildSuites]
    /\ out = NoOut
    /\ gen = GenOff
    /\ construction = [pc |-> "building",
                       registry |-> {"main"},
                       stack |-> << BuildCalls(args.methods, "main", 0) >>]

Constructs(c) ==
    /\ construction' = c
    /\ UNCHANGED << name, input, fn, args, out, gen >>
    /\ UNCHANGED avars
    /\ UNCHANGED cvars
    /\ UNCHANGED fvars

\* the running build makes its next call: a CFG that is registered is not
\* constructed again; a call at the recursion limit raises RecursionError
Descend ==
    /\ construction.pc = "building"
    /\ LET depth == Len(construction.stack)
           todo == construction.stack[depth]
           call == Head(todo)
           rest == [construction.stack EXCEPT ![depth] = Tail(todo)]
       IN  /\ todo # << >>
           /\ IF call.ctor /\ call.method \in construction.registry
              THEN Constructs([construction EXCEPT !.stack = rest])
              ELSE IF depth >= MaxDepth
              THEN Constructs([construction EXCEPT !.pc = "RecursionError"])
              ELSE Constructs([construction EXCEPT
                      !.registry = IF call.ctor THEN @ \cup {call.method} ELSE @,
                      !.stack = Append(rest,
                                   BuildCalls(args.methods, call.method, call.offset))])

\* the running build has made all its calls and returns its node
Ascend ==
    /\ construction.pc = "building"
    /\ LET depth == Len(construction.stack)
       IN  /\ construction.stack[depth] = << >>
           /\ Constructs([construction EXCEPT
                             !.stack = SubSeq(@, 1, depth - 1),
                             !.pc = IF depth = 1 THEN "returned" ELSE @])

BuildNext == Descend \/ Ascend

BuildSpec == BuildInit /\ [][BuildNext]_vars

\* a running construction keeps running
FairBuildSpec == BuildSpec /\ WF_vars(BuildNext)

(***************************************************************************)
(* Properties.                                                             *)
(***************************************************************************)
\* a concrete value lies in the abstract value at the same position
ValueIn(v, av) == v.type = "int" => Contains(av.interval, Fin(v.value))

\* every integer local and operand of the concrete frame cf lies in the
\* interval at the same position of the abstract frame af
FrameIn(cf, af) ==
    /\ \A k \in DOMAIN cf.locals :
          cf.locals[k].type = "int" =>
              k \in DOMAIN af.locals /\ ValueIn(cf.locals[k], af.locals[k])
    /\ \A j \in 1..Len(cf.stack) :
          cf.stack[j].type = "int" =>
              j <= Len(af.stack) /\ ValueIn(cf.stack[j], af.stack[j])

\* the concrete state c is covered by the abstract state stored at its PC
Covered(c, stored) ==
    LET p == c.frames[Len(c.frames)].pc
    IN  /\ p \in DOMAIN stored
        /\ \A d \in 1..Len(c.frames) :
              d <= Len(stored[p].frames) /\ FrameIn(c.frames[d], stored[p].frames[d])

\* the worklist has returned at its fixed point
FixedPoint == apc = "done" /\ ~hit_max_steps /\ needswork = {}

\* C1: soundness -- once the worklist is at its fixed point, every concrete
\* state reached by a method without heap opcodes has its integer locals and
\* operands inside the intervals of the abstract state stored at its PC.
C1_Soundness ==
    (FixedPoint /\ ~UsesHeap(entry) /\ cresult = "") => Covered(cstate, per_inst)

\* C2: concrete-abstract agreement -- a terminal outcome of the concrete run
\* is in the outcome set of the analysis, unless the method uses the heap or
\* the analysis returned the empty set.
C2_Agreement ==
    (apc = "done" /\ cresult \in TerminalLabels /\ ~UsesHeap(entry) /\ final # {})
        => cresult \in final

\* C3: the worklist driver terminates -- it never begins more than MAX_STEPS
\* passes, every pass steps a finite set of PCs that have a stored state, it
\* leaves the loop as soon as needswork is empty at the head of a pass, and
\* it eventually returns (or is left by an exception).
C3_DriverTerminates ==
    /\ [](i <= MAX_STEPS /\ (apc = "pass" => i < MAX_STEPS))
    /\ [](IsFiniteSet(work) /\ work \subseteq processing_pcs
            /\ processing_pcs \subseteq DOMAIN per_inst)
    /\ [][(apc = "loop" /\ needswork = {} /\ i < MAX_STEPS) => apc' = "done"]_vars
    /\ <>(apc \in {"done", "raised"})

\* C3 witness: the budget ran out with dirty PCs left, and the driver returned
C3_Witness == apc = "done" /\ i = MAX_STEPS /\ needswork # {} /\ hit_max_steps

\* C4: the iteration-cap rule fires exactly when the budget is exhausted with
\* a non-empty dirty set; a run whose dirty set is empty after its last pass
\* is a convergence.
C4_CapRule == apc = "done" => (hit_max_steps <=> needswork # {})

\* C5: a converged analysis that produced no terminal label returns {"*"} if
\* some successor PC re-entered the dirty set and the empty set otherwise.
C5_LoopProxy ==
    (apc = "done" /\ ~hit_max_steps /\ final \subseteq {"*"})
        => final = (IF reentered THEN {"*"} ELSE {})

\* C6: every element of the returned outcome set is a label the wager accepts.
C6_OutcomeLabels == apc = "done" => final \subseteq WagerLabels

\* C7: DivByParam with K = {10} yields {"ok", "divide by zero"} and the
\* input-interval list [[10, 10]].
C7_DivByParam ==
    (name = "DivByParam" /\ apc = "done")
        => /\ final = {"ok", "divide by zero"}
           /\ Len(initial_input_intervals) = 1
           /\ initial_input_intervals[1].lower = Fin(10)
           /\ initial_input_intervals[1].upper = Fin(10)

\* some stored abstract state sits at a heap opcode
AtHeapOpcode ==
    \E p \in DOMAIN per_inst :
        /\ p.offset < Len(entry.methods[p.method])
        /\ entry.methods[p.method][p.offset + 1].op \in HeapOps

\* C8: when a reachable abstract state sits at a heap opcode the analysis
\* raises no error and returns the empty outcome set.
C8_HeapIncomplete ==
    (apc \in {"done", "raised"} /\ AtHeapOpcode) => (apc = "done" /\ final = {})

\* the opcode the concrete run is about to execute
CurFrame == cstate.frames[Len(cstate.frames)]

CurOpr == entry.methods[CurFrame.pc.method][CurFrame.pc.offset + 1]

Stepping == apc = "done" /\ cresult = "" /\ csteps < MaxConcreteSteps
            /\ CurFrame.pc.offset < Len(entry.methods[CurFrame.pc.method])

\* the current frame after the step
NewFrame == cstate'.frames[Len(cstate'.frames)]

\* C9: concrete Div and Rem return "divide by zero" when v2 = 0 and otherwise
\* push floor(v1 / v2), resp. v1 - floor(v1 / v2) * v2, and advance the PC.
C9_DivRem ==
    [][(Stepping /\ CurOpr.op = "Binary" /\ CurOpr.s \in {"Div", "Rem"}
          /\ Len(CurFrame.stack) >= 2)
       => LET n == Len(CurFrame.stack)
              v2 == CurFrame.stack[n].value
              v1 == CurFrame.stack[n - 1].value
          IN  IF v2 = 0 THEN cresult' = "divide by zero"
              ELSE /\ cresult' = ""
                   /\ NewFrame.pc = PC(CurFrame.pc.method, CurFrame.pc.offset + 1)
                   /\ NewFrame.stack = Prefix(CurFrame.stack, n - 2)
                        \o << Value("int", IF CurOpr.s = "Div" THEN FloorDiv(v1, v2)
                                           ELSE v1 - FloorDiv(v1, v2) * v2) >>]_vars

\* C10: concrete ArrayLoad / ArrayStore return "null pointer" for a null
\* reference and "out of bounds" for an index outside [0, length); only
\* otherwise do they read or write the element and advance; a fault leaves
\* the heap unchanged.
C10_ArrayGuards ==
    [][(Stepping /\ CurOpr.op \in {"ArrayLoad", "ArrayStore"}
          /\ Len(CurFrame.stack) >= (IF CurOpr.op = "ArrayLoad" THEN 2 ELSE 3))
       => LET n == Len(CurFrame.stack)
              k == IF CurOpr.op = "ArrayLoad" THEN n ELSE n - 1
              index == CurFrame.stack[k].value
              ref == CurFrame.stack[k - 1].value
              arr == cstate.heap[ref].value
          IN  IF ref = None THEN cresult' = "null pointer" /\ cstate'.heap = cstate.heap
              ELSE IF index < 0 \/ index >= Len(arr)
                   THEN cresult' = "out of bounds" /\ cstate'.heap = cstate.heap
              ELSE /\ cresult' = ""
                   /\ NewFrame.pc = PC(CurFrame.pc.method, CurFrame.pc.offset + 1)
                   /\ IF CurOpr.op = "ArrayLoad"
                      THEN /\ NewFrame.stack = Prefix(CurFrame.stack, n - 2)
                                                 \o << Value("int", arr[index + 1]) >>
                           /\ cstate'.heap = cstate.heap
                      ELSE /\ NewFrame.stack = Prefix(CurFrame.stack, n - 3)
                           /\ cstate'.heap[ref].value =
                                [arr EXCEPT ![index + 1] = CurFrame.stack[n].value]]_vars

\* C11: the concrete Cast(Int -> Short) replaces the integer v on top of the
\* stack by its 16-bit sign extension ((v + 2^15) mod 2^16) - 2^15 and
\* advances the PC.
C11_CastShort ==
    [][(Stepping /\ CurOpr.op = "Cast" /\ CurOpr.t = "short"
          /\ Len(CurFrame.stack) >= 1
          /\ CurFrame.stack[Len(CurFrame.stack)].type = "int")
       => LET n == Len(CurFrame.stack)
              v == CurFrame.stack[n].value
          IN  /\ cresult' = ""
              /\ NewFrame.pc = PC(CurFrame.pc.method, CurFrame.pc.offset + 1)
              /\ NewFrame.stack = Prefix(CurFrame.stack, n - 1)
                    \o << Value("int", ((v + 32768) % 65536) - 32768) >>]_vars

\* C12: the concrete call/return protocol.  InvokeStatic moves the n
\* arguments into locals 0..n-1 of a fresh frame in their original order,
\* pushes that frame at PC (callee, 0) and leaves the caller's PC alone;
\* Return with a caller left pops the callee frame, pushes the returned
\* value (if any) on the caller's stack and advances the caller's PC by one;
\* no other step touches the frames below the current one.
C12_CallReturn ==
    [][Stepping
       => LET depth == Len(cstate.frames)
              frame == CurFrame
              n == Len(frame.stack)
              a == CurOpr.a
          IN  /\ (CurOpr.op = "InvokeStatic" /\ n >= a)
                 => /\ cresult' = ""
                    /\ Len(cstate'.frames) = depth + 1
                    /\ NewFrame = Frame([j \in 0..(a - 1) |-> frame.stack[n - a + 1 + j]],
                                        << >>, PC(CurOpr.s, 0))
                    /\ cstate'.frames[depth]
                         = Frame(frame.locals, Prefix(frame.stack, n - a), frame.pc)
                    /\ Prefix(cstate'.frames, depth - 1) = Prefix(cstate.frames, depth - 1)
              /\ (CurOpr.op = "Return" /\ depth >= 2 /\ (CurOpr.t = "void" \/ n >= 1))
                 => LET caller == cstate.frames[depth - 1]
                    IN  /\ cresult' = ""
                        /\ cstate'.frames
                             = Prefix(cstate.frames, depth - 2)
                                 \o << Frame(caller.locals,
                                             IF CurOpr.t = "void" THEN caller.stack
                                             ELSE caller.stack \o << frame.stack[n] >>,
                                             PC(caller.pc.method, caller.pc.offset + 1)) >>
              /\ (CurOpr.op \notin {"InvokeStatic", "Return"} /\ cresult' = "")
                 => /\ Len(cstate'.frames) = depth
                    /\ Prefix(cstate'.frames, depth - 1) = Prefix(cstate.frames, depth - 1)]_vars

\* C12 witness: the two-argument call of Call2 has returned; main is at the
\* opcode after the call with a - b on its stack
C12_Witness ==
    /\ name = "Call2" /\ cresult = ""
    /\ Len(cstate.frames) = 1
    /\ CurFrame.pc = PC("main", 3)
    /\ CurFrame.stack = << Value("int", input[1] - 5) >>

\* the stored abstract state at p is about to return to a caller frame
ReturnsToCaller(p) ==
    /\ p.offset < Len(entry.methods[p.method])
    /\ entry.methods[p.method][p.offset + 1].op = "Return"
    /\ Len(per_inst[p].frames) >= 2
    /\ step(per_inst[p], bc).ys # << >>

\* the PCs that follow a call site of method callee (the call at offset
\* k - 1 is the k-th opcode of its method)
Continuations(callee) ==
    UNION { { PC(m, k) : k \in { j \in 1..Len(entry.methods[m]) :
                                    /\ entry.methods[m][j].op = "InvokeStatic"
                                    /\ entry.methods[m][j].s = callee } }
            : m \in DOMAIN entry.methods }

\* C13: an abstract Return executed with a caller frame remaining yields a
\* successor whose PC is the opcode after the call site, with the callee
\* frame removed and the returned abstract value on the caller's stack.
C13_AbstractCallReturn ==
    \A p \in DOMAIN per_inst :
        ReturnsToCaller(p)
        => LET st == per_inst[p]
               depth == Len(st.frames)
               callee == st.frames[depth]
               caller == st.frames[depth - 1]
               opr == entry.methods[p.method][p.offset + 1]
               succ == step(st, bc).ys[1].st
           IN  /\ succ.pc \in Continuations(p.method)
               /\ succ.frames
                    = Prefix(st.frames, depth - 2)
                        \o << PerVarFrame(caller.locals,
                                 IF opr.t = "void" THEN caller.stack
                                 ELSE caller.stack \o << callee.stack[Len(callee.stack)] >>) >>

\* the unit run of function f has returned
Done(f) == fn = f /\ out.done

\* the elements of a sequence
Range(seq) == { seq[k] : k \in DOMAIN seq }

\* the table of the specification: is the jump, resp. the fall-through, of
\* Ifz(c, _) feasible for the non-empty interval x
JumpFeasible(c, x) ==
    CASE c = "eq" -> BLe(x.lower, Fin(0)) /\ BLe(Fin(0), x.upper)
      [] c = "ne" -> ~(x.lower = Fin(0) /\ x.upper = Fin(0))
      [] c = "lt" -> BLt(x.lower, Fin(0))
      [] c = "ge" -> BGe(x.upper, Fin(0))
      [] c = "gt" -> BGt(x.upper, Fin(0))
      [] c = "le" -> BLe(x.lower, Fin(0))

FallFeasible(c, x) ==
    CASE c = "eq" -> ~(x.lower = Fin(0) /\ x.upper = Fin(0))
      [] c = "ne" -> BLe(x.lower, Fin(0)) /\ BLe(Fin(0), x.upper)
      [] c = "lt" -> BGe(x.upper, Fin(0))
      [] c = "ge" -> BLt(x.lower, Fin(0))
      [] c = "gt" -> BLe(x.lower, Fin(0))
      [] c = "le" -> BGt(x.upper, Fin(0))

\* the successor of the unit state at offset o with the operands of the
\* opcode replaced by pushed
UnitSucc(o, pushed) ==
    YState(AState(<< PerVarFrame(UnitLocals, << UnitBelow >> \o pushed) >>, PC("main", o)))

\* C14: for every condition c and non-empty interval x on top of the stack,
\* the abstract Ifz(c, target) yields the jump successor iff the table says
\* the jump is feasible and the fall-through successor iff the table says the
\* fall-through is feasible; both have x popped and the locals unchanged.
C14_IfzTable ==
    (Done("Ifz") /\ ~is_empty(args.x))
        => /\ ~out.res.raised
           /\ Range(out.res.ys) \subseteq {UnitSucc(2, << >>), UnitSucc(1, << >>)}
           /\ UnitSucc(2, << >>) \in Range(out.res.ys) <=> JumpFeasible(args.c, args.x)
           /\ UnitSucc(1, << >>) \in Range(out.res.ys) <=> FallFeasible(args.c, args.x)

\* C14 witness: Ifz eq on [-1, 1] has yielded both successors
C14_Witness ==
    /\ Done("Ifz") /\ args.c = "eq"
    /\ args.x = Interval(Fin(-1), Fin(1))
    /\ out.res.ys = << UnitSucc(2, << >>), UnitSucc(1, << >>) >>

\* a non-empty interval with integer bounds
IsBounded(x) == x.lower.inf = 0 /\ x.upper.inf = 0 /\ x.lower.n <= x.upper.n

\* C15: abstract Binary Div with non-empty divisor D and dividend [lo, hi]
\* yields "divide by zero" iff 0 is in D, yields a numeric successor iff
\* D # {0}; the successor's top of stack is [floor(lo/d), floor(hi/d)] for a
\* singleton non-zero D = [d, d] and the top interval [-oo, +oo] otherwise.
C15_AbstractDiv ==
    (Done("Div") /\ IsBounded(args.v1) /\ IsBounded(args.v2))
        => LET D == args.v2
               zero == D.lower.n <= 0 /\ 0 <= D.upper.n
               only_zero == D.lower.n = 0 /\ D.upper.n = 0
               d == D.lower.n
               quotient == IF D.lower.n = D.upper.n
                           THEN Interval(Fin(FloorDiv(args.v1.lower.n, d)),
                                         Fin(FloorDiv(args.v1.upper.n, d)))
                           ELSE IntervalUniversal
           IN  /\ ~out.res.raised
               /\ YTerm("divide by zero") \in Range(out.res.ys) <=> zero
               /\ Range(out.res.ys) \ {YTerm("divide by zero")}
                    = IF only_zero THEN {}
                      ELSE {UnitSucc(1, << int_interval(quotient) >>)}

\* C16: Interval.__or__ is a least upper bound for Interval.__le__: x and y
\* are below x | y, and x | y is below every z that is above x and y.
C16_JoinIsLub ==
    Done("__or__")
        => /\ IntervalLe(args.x, out.v)
           /\ IntervalLe(args.y, out.v)
           /\ \A z \in UnitIntervals :
                 (IntervalLe(args.x, z) /\ IntervalLe(args.y, z)) => IntervalLe(out.v, z)

\* C17: under the equality of the Interval class, join(x, x) = x,
\* meet(x, x) = x, join(empty, x) = x and meet(universal, x) = x.
C17_LatticeIdentities ==
    /\ (Done("__or__") /\ args.x = args.y) => out.v = args.x
    /\ (Done("__and__") /\ args.x = args.y) => out.v = args.x
    /\ (Done("__or__") /\ args.x = IntervalEmpty) => out.v = args.y
    /\ (Done("__and__") /\ args.x = IntervalUniversal) => out.v = args.y

\* C18: Interval.abstract(xs) | Interval.abstract(ys) equals
\* Interval.abstract(xs \cup ys) for all finite integer sets xs and ys.
C18_AbstractDistributes ==
    Done("test_interval_abstraction_distributes") => out.lhs = out.rhs

\* C19: every element of S is contained in Interval.abstract(S) and in its
\* concretization, abstract({}) is the empty interval and abstract({k}) is
\* [k, k].
C19_AbstractValid ==
    Done("test_interval_abstraction_valid")
        => /\ \A x \in args.xs : Contains(out.r, Fin(x))
           /\ args.xs \subseteq out.concrete
           /\ args.xs = {} => out.r = IntervalEmpty
           /\ \A k \in args.xs : args.xs = {k} => out.r = Interval(Fin(k), Fin(k))

\* C19 witness: the abstraction of a set of two elements has been computed
C19_Witness ==
    /\ Done("test_interval_abstraction_valid")
    /\ args.xs = {-1, 2}
    /\ out.r = Interval(Fin(-1), Fin(2))

\* C20: x + y is contained in Interval.abstract(xs) + Interval.abstract(ys)
\* for all x in xs and y in ys; the sum of non-empty [a, b] and [c, d] is
\* [a + c, b + d], and it is empty if either operand is empty.
C20_AddSoundExact ==
    Done("test_interval_abstraction_add")
        => LET X == IntervalAbstract(args.xs)
               Y == IntervalAbstract(args.ys)
           IN  /\ \A x \in args.xs : \A y \in args.ys : Contains(out.r, Fin(x + y))
               /\ IF args.xs = {} \/ args.ys = {}
                  THEN is_empty(out.r)
                  ELSE out.r = Interval(Fin(X.lower.n + Y.lower.n),
                                        Fin(X.upper.n + Y.upper.n))

\* C20 witness: two non-empty, non-singleton abstractions have been added
C20_Witness ==
    /\ Done("test_interval_abstraction_add")
    /\ args.xs = {-2, 1} /\ args.ys = {0, 2}
    /\ out.r = Interval(Fin(-2), Fin(3))

(***************************************************************************)
(* C21: when an ascending sequence of intervals is merged one after the    *)
(* other into a stored interval with Interval.widening, the stored         *)
(* interval changes at most 2*|K|+2 times, K being the constants it        *)
(* carries.                                                                *)
(***************************************************************************)
C21_WideningTerminates ==
    Done("widening") => out.changes <= 2 * Cardinality(out.v.K) + 2

\* the bound is attained: a stored interval that has changed 2*|K|+2 times
\* and that merging the last interval of the sequence again leaves alone
C21_Witness ==
    /\ Done("widening")
    /\ out.changes = 2 * Cardinality(out.v.K) + 2
    /\ widening(out.v, out.last) = out.v

\* the CFG objects of the registry that the unit run returned
Built == out.G.registry

\* the offsets of method m that control reaches from offset 0
ReachableOffsets(m) ==
    LET code == out.G.methods[m]
        succ(o) ==
            LET opr == code[o + 1]
            IN  IF opr.op \in {"If", "Ifz"} THEN {o + 1, opr.a}
                ELSE IF opr.op = "Goto" THEN {opr.a}
                ELSE IF opr.op \in {"Return", "Throw"} THEN {}
                ELSE {o + 1}
        reached[k \in 0..Len(code)] ==
            IF k = 0 THEN {0}
            ELSE reached[k - 1] \cup UNION { succ(o) : o \in reached[k - 1] }
    IN  reached[Len(code)]

\* the offsets of the block that starts at s in CFG m
BlockRange(m, s) == s..Built[m].nodes[s].offset_end

(***************************************************************************)
(* C22: in every CFG that has been built, the ranges [offset_start,        *)
(* offset_end] of distinct blocks are pairwise disjoint, every offset_end  *)
(* is an offset of the method, and the union of the ranges is the set of   *)
(* the reachable offsets of the method.                                    *)
(***************************************************************************)
C22_BlockRanges ==
    Done("CFG") =>
        \A m \in DOMAIN Built :
            LET starts == DOMAIN Built[m].nodes
            IN  /\ \A s \in starts : \A t \in starts :
                      s # t => BlockRange(m, s) \cap BlockRange(m, t) = {}
                /\ \A s \in starts :
                      Built[m].nodes[s].offset_end \in 0..(Len(out.G.methods[m]) - 1)
                /\ UNION { BlockRange(m, s) : s \in starts } = ReachableOffsets(m)

\* the chain of split_child pointers that starts at node s ends at node t
TailOf(split_child, s, t) ==
    LET chain[k \in 0..Cardinality(DOMAIN split_child)] ==
            IF k = 0 THEN s
            ELSE IF split_child[chain[k - 1]] = None THEN chain[k - 1]
            ELSE split_child[chain[k - 1]]
    IN  chain[Cardinality(DOMAIN split_child)] = t /\ split_child[t] = None

(***************************************************************************)
(* C23: when a backward Goto targets an offset t inside a built block      *)
(* B = [a, b], a < t <= b, then right after the split B = [a, t-1], the    *)
(* new block B2 = [t, b] holds the edges and the terminator opcode B had,  *)
(* B.split_child is B2, the only edge of B is a plain fall-through to B2   *)
(* and the edge of the Goto targets B2; and whenever generate_basic_node   *)
(* attaches the edges of a block that has been split, they go to the last  *)
(* block of its split_child chain, not to the block itself.                *)
(***************************************************************************)
C23_BackEdgeSplit ==
    Done("CFG") =>
        /\ \A k \in DOMAIN out.G.splits :
              LET e == out.G.splits[k]
                  a == e.B.offset_start
                  B == e.nodes[a]
                  B2 == e.nodes[e.target]
              IN  /\ a < e.target /\ e.target <= e.B.offset_end
                  /\ B.offset_start = a /\ B.offset_end = e.target - 1
                  /\ B2.offset_start = e.target /\ B2.offset_end = e.B.offset_end
                  /\ B2.child_edges = e.B.child_edges
                  /\ B2.byte_code = e.B.byte_code
                  /\ B.split_child = e.target
                  /\ B.byte_code = NoOpcode
                  /\ B.child_edges =
                        << Edge(NodeId(e.cfg, a), NodeId(e.cfg, e.target), NoOpcode, None) >>
                  /\ Len(e.jump) = 1
                  /\ e.jump[1].end_node = NodeId(e.cfg, e.target)
                  /\ e.jump[1].branch_opcode.op = "Goto"
        /\ \A k \in DOMAIN out.G.attaches :
              LET e == out.G.attaches[k]
              IN  /\ TailOf(e.split_child, e.node, e.to)
                  /\ e.split_child[e.node] # None => e.to # e.node

\* a block has been split while the walk that created it was still
\* running, and its edges have been attached to the tail
C23_Witness ==
    /\ Done("CFG")
    /\ out.G.splits # << >>
    /\ \E k \in DOMAIN out.G.attaches :
          /\ out.G.attaches[k].to # out.G.attaches[k].node
          /\ \E j \in DOMAIN out.G.splits :
                /\ out.G.splits[j].cfg = out.G.attaches[k].cfg
                /\ out.G.splits[j].B.offset_start = out.G.attaches[k].node
                /\ out.G.splits[j].target = out.G.attaches[k].to

\* the call sites of the graph: the reachable InvokeStatic opcodes of the
\* methods that have a CFG
CallSites ==
    { cs \in UNION { { [m |-> m, o |-> o] : o \in ReachableOffsets(m) } : m \in DOMAIN Built } :
        out.G.methods[cs.m][cs.o + 1].op = "InvokeStatic" }

C25_ErrorAborts ==
    wpc = "raised" => ~(printed.done /\ exit_code = 0)

\* C26: the printed wager gives 100% to every outcome a concrete run has
\* observed and 70% to every outcome only the analysis has predicted, and
\* "not done" is neither printed nor passed to the wager.
C26_Wager ==
    printed.done =>
        /\ \A label \in outputs_encountered \ {"not done"} :
              label \in DOMAIN printed.lines /\ printed.lines[label] = 100
        /\ \A label \in final_states \ outputs_encountered :
              label \in DOMAIN printed.lines /\ printed.lines[label] = 70
        /\ "not done" \notin DOMAIN printed.lines
        /\ "not done" \notin printed.passed

\* a wager printed for a run that observed and predicted one outcome, only
\* predicted another, only observed a third, and had a run cancelled
C26_Witness ==
    /\ printed.done
    /\ "not done" \in outputs_encountered
    /\ final_states \cap outputs_encountered # {}
    /\ final_states \ outputs_encountered # {}
    /\ outputs_encountered \ (final_states \cup {"not done"}) # {}

\* C27: the supervisor sets the flag only when is_alive() has found the
\* worker alive after the timed join, it reads the shared sets only after the
\* worker has terminated, and every outcome the worker had added when the
\* flag was set is printed with 100%.
C27_Handoff ==
    /\ stop_event => alive
    /\ spc \in {"wager", "exited"} => ~is_alive
    /\ printed.done =>
          \A label \in at_cancel \ {"not done"} :
              label \in DOMAIN printed.lines /\ printed.lines[label] = 100

\* the wager printed after a cancellation that found outcomes recorded, and
\* after which the worker recorded one more
C27_Witness ==
    /\ printed.done
    /\ stop_event
    /\ at_cancel # {}
    /\ outputs_encountered \ (at_cancel \cup {"not done"}) # {}

\* no call of interpreter.run begins while the flag is set
C28_NoFurtherRun ==
    [][(stop_event /\ wpc # "running") => wpc' # "running"]_vars

\* once the flag is set the worker thread terminates
C28_WorkerExits ==
    stop_event ~> ~is_alive

\* C28: once the supervisor has set the cancellation flag, fuzz_loop starts
\* no further concrete run, and the worker thread eventually exits.
C28_Cancellation ==
    C28_NoFurtherRun /\ C28_WorkerExits


\* a step of a pass steps one of its dirty PCs and takes it off the pass
C29_SteppedOnce ==
    [][(apc = "pass" /\ apc' = "pass") => \E pc \in work : work' = work \ {pc}]_vars

\* a dirty PC of the pass that is still to be stepped keeps the state that
\* was stored for it when the pass began
C29_FromPassBegin ==
    [][(apc = "pass" /\ apc' = "pass") =>
          \A pc \in work' : per_inst'[pc] = per_inst[pc]]_vars

\* while dirty PCs of the pass are still to be stepped, the state map is as
\* it was when the pass began
C29_MergedAfterPass ==
    [][(apc = "pass" /\ work' # {}) => per_inst' = per_inst]_vars

\* C29: within one pass every dirty PC is stepped exactly once, from the
\* abstract state stored for it when the pass began, and the successors
\* produced during the pass are merged into the state map only after all
\* dirty PCs of the pass have been stepped.
C29_PassStaging ==
    C29_SteppedOnce /\ C29_FromPassBegin /\ C29_MergedAfterPass


\* the PC a step of a pass has stepped
SteppedPC == CHOOSE pc \in work : work' = work \ {pc}

\* the states that step yields for the PC p
Candidates(p) ==
    LET ys == step(per_inst[SteppedPC], bc).ys
    IN  { ys[k].st : k \in { j \in 1..Len(ys) : ys[j].term = "" /\ ys[j].st.pc = p } }

\* the bounds of an interval, and of the plain join of two intervals
Bounds(x) == << x.lower, x.upper >>

Hull(x, y) ==
    IF is_empty(x) THEN Bounds(y)
    ELSE IF is_empty(y) THEN Bounds(x)
    ELSE << BMin(x.lower, y.lower), BMax(x.upper, y.upper) >>

\* the bounds held by a frame, position by position
FrameBounds(f) ==
    [locals |-> [v \in DOMAIN f.locals |-> Bounds(f.locals[v].interval)],
     stack |-> [k \in 1..Len(f.stack) |-> Bounds(f.stack[k].interval)]]

\* the bounds of the join of two frames when intervals are joined plainly
FrameHull(f, g) ==
    [locals |-> [v \in (DOMAIN f.locals) \cup (DOMAIN g.locals) |->
                    IF v \in DOMAIN f.locals /\ v \in DOMAIN g.locals
                    THEN Hull(f.locals[v].interval, g.locals[v].interval)
                    ELSE IF v \in DOMAIN f.locals THEN Bounds(f.locals[v].interval)
                    ELSE Bounds(g.locals[v].interval)],
     stack |-> [k \in 1..(IF Len(f.stack) < Len(g.stack) THEN Len(f.stack) ELSE Len(g.stack)) |->
                    Hull(f.stack[k].interval, g.stack[k].interval)]]

\* new is the join of old and q with every interval joined plainly
PlainJoined(new, old, q) ==
    LET depth == IF Len(old.frames) < Len(q.frames) THEN Len(old.frames) ELSE Len(q.frames)
    IN  /\ Len(new.frames) = depth
        /\ \A d \in 1..depth : FrameBounds(new.frames[d]) = FrameHull(old.frames[d], q.frames[d])

\* C30: the merge of a candidate state into the state stored at PC p uses
\* the plain join [min(lo, lo'), max(hi, hi')] unless p was marked dirty in a
\* strictly earlier pass, in which case widening is applied; so a second
\* successor that reaches, in the same pass, a PC first stored in that pass
\* is combined without widening.
C30_MergeRule ==
    [][(apc = "pass" /\ apc' = "pass") =>
          \A p \in DOMAIN per_inst :
              \A q \in Candidates(p) :
                  Cardinality(Candidates(p)) = 1 =>
                      IF p \in marked
                      THEN per_inst'[p] = AStateOr(per_inst[p], q)
                      ELSE PlainJoined(per_inst'[p], per_inst[p], q)]_vars


\* the largest element of Ks that is <= m, -inf if there is none
LargestBelow(Ks, m) ==
    LET S == { k \in Ks : BLe(Fin(k), m) }
    IN  IF S = {} THEN NEG_INF ELSE Fin(CHOOSE k \in S : \A j \in S : j <= k)

\* the smallest element of Ks that is >= m, +inf if there is none
SmallestAbove(Ks, m) ==
    LET S == { k \in Ks : BGe(Fin(k), m) }
    IN  IF S = {} THEN POS_INF ELSE Fin(CHOOSE k \in S : \A j \in S : k <= j)

\* C31: the join of the non-empty intervals [a, b] and [c, d] with constant
\* set K is [l, u], l the largest element of K that is <= min(a, c) (-inf if
\* none) and u the smallest element of K that is >= max(b, d) (+inf if none),
\* whatever the order in which the set holding K is iterated.
C31_WideningBounds ==
    (Done("__or__") /\ ~is_empty(args.x) /\ ~is_empty(args.y))
        => /\ out.v.lower = LargestBelow(args.x.K, BMin(args.x.lower, args.y.lower))
           /\ out.v.upper = SmallestAbove(args.x.K, BMax(args.x.upper, args.y.upper))


\* the states a unit run of step has yielded
YieldedStates == { out.res.ys[k].st : k \in { j \in DOMAIN out.res.ys : out.res.ys[j].term = "" } }

\* the interval on top of the operand stack of a state
TopOfStack(st) == Peek(st).stack[Len(Peek(st).stack)].interval

\* the first non-empty constant set among two operands
FirstK(x, y) == IF x.K # {} THEN x.K ELSE y.K

\* C32: whenever an operand of join, meet, Add, Sub, Mul, Div, Rem or Incr
\* carries a non-empty K, the resulting interval carries the first non-empty
\* K among its operands.
C32_KPreserved ==
    /\ (Done("__or__") \/ Done("__and__"))
          => (FirstK(args.x, args.y) # {} => out.v.K = FirstK(args.x, args.y))
    /\ (Done("Div") \/ Done("Binary"))
          => (FirstK(args.v1, args.v2) # {}
                => \A st \in YieldedStates : TopOfStack(st).K = FirstK(args.v1, args.v2))
    /\ Done("Incr")
          => (args.x.K # {}
                => \A st \in YieldedStates : Peek(st).locals[0].interval.K = args.x.K)


\* C33: meet, and the Add, Sub, Mul, Div and Rem of the abstract step, return
\* an empty interval (lower > upper) whenever either operand is empty.
C33_EmptyAbsorbs ==
    /\ (Done("__and__") /\ (is_empty(args.x) \/ is_empty(args.y)))
          => is_empty(out.v)
    /\ ((Done("Div") \/ Done("Binary")) /\ (is_empty(args.v1) \/ is_empty(args.v2)))
          => /\ ~out.res.raised
             /\ \A st \in YieldedStates : is_empty(TopOfStack(st))


\* the interval the specification gives to parameter k of the method
ExpectedInitial(k) ==
    IF entry.params[k] = "int" /\ entry.K # {}
    THEN init_K(Interval(Fin(CHOOSE x \in entry.K : \A y \in entry.K : x <= y),
                         Fin(CHOOSE x \in entry.K : \A y \in entry.K : x >= y)), entry.K)
    ELSE IntervalUniversal

\* an interval as the specification describes it: the same bounds, and the
\* same constant set when it is K-annotated
AsExpected(x, k) ==
    /\ Bounds(x) = Bounds(ExpectedInitial(k))
    /\ ExpectedInitial(k).K # {} => x.K = ExpectedInitial(k).K

\* C34: in the initial abstract state, local i is [min(K), max(K)] carrying K
\* for an int parameter with non-empty K and [-inf, +inf] otherwise, the
\* operand stack is empty and the PC is (method, 0); the input-interval list
\* that abstract_interpretation returns holds the same intervals.
C34_InitialState ==
    (apc = "loop" /\ i = 0)
        => /\ DOMAIN per_inst = {PC("main", 0)}
           /\ per_inst[PC("main", 0)].pc = PC("main", 0)
           /\ Len(per_inst[PC("main", 0)].frames) = 1
           /\ Peek(per_inst[PC("main", 0)]).stack = << >>
           /\ \A k \in 1..Len(entry.params) :
                 /\ AsExpected(Peek(per_inst[PC("main", 0)]).locals[k - 1].interval, k)
                 /\ AsExpected(initial_input_intervals[k], k)


\* C38: whenever the divisor interval of an abstract Binary Rem contains 0,
\* the step yields the terminal "divide by zero".
C38_RemByZero ==
    (Done("Binary") /\ args.opr = "Rem" /\ Contains(args.v2, Fin(0)))
        => /\ ~out.res.raised
           /\ YTerm("divide by zero") \in Range(out.res.ys)

\* C39: for a singleton non-zero divisor [d, d] and a non-empty dividend, the
\* interval pushed by abstract Binary Div is non-empty and contains the floor
\* quotient v // d of every integer v of the dividend.
C39_DivSound ==
    (Done("Div") /\ ~is_empty(args.v1) /\ IsBounded(args.v2)
       /\ args.v2.lower.n = args.v2.upper.n /\ args.v2.lower.n # 0)
        => /\ ~out.res.raised
           /\ YieldedStates # {}
           /\ \A st \in YieldedStates :
                 /\ ~is_empty(TopOfStack(st))
                 /\ \A v \in (0 - MaxAbs)..MaxAbs :
                       Contains(args.v1, Fin(v))
                           => Contains(TopOfStack(st), Fin(FloorDiv(v, args.v2.lower.n)))


\* C40: while the concrete run has produced no terminal label its frame stack
\* is non-empty and its depth is 1 + the InvokeStatic steps executed - the
\* Return steps executed; the run answers "ok" only by a Return executed with
\* exactly one frame on the stack.
C40_FrameDepth ==
    /\ [](cresult = ""
             => /\ Len(cstate.frames) >= 1
                /\ Len(cstate.frames) = 1 + executed.InvokeStatic - executed.Return)
    /\ [][(cresult = "" /\ cresult' = "ok")
             => /\ CurFrame.pc.offset < Len(entry.methods[CurFrame.pc.method])
                /\ CurOpr.op = "Return"
                /\ Len(cstate.frames) = 1
                /\ executed'.Return = executed.Return + 1]_vars

\* C40 witness: a run back at depth one after a call and its return, with no
\* terminal label yet
C40_Witness ==
    /\ apc = "done" /\ cresult = ""
    /\ Len(cstate.frames) = 1
    /\ executed.InvokeStatic = 1 /\ executed.Return = 1


\* the index tuples of the Cartesian product of the sources, up to the round
\* at which the model cuts an infinite enumeration off
ProductIdxs ==
    { t \in [DOMAIN args.sources -> 0..MaxRadius] :
        \A k \in DOMAIN t :
            args.sources[k].finite => t[k] < Len(args.sources[k].items) }

AllFinite == \A k \in DOMAIN args.sources : args.sources[k].finite

SomeEmpty == \E k \in DOMAIN args.sources :
                args.sources[k].finite /\ args.sources[k].items = << >>

\* C37: fair_product yields every tuple of the Cartesian product of its
\* sources exactly once, the tuple with indices (i0, ..., ik-1) in round
\* max ij and so after finitely many steps; it yields nothing when some
\* source is empty, and it terminates exactly when all sources are finite.
C37_FairProduct ==
    /\ [](gen.pc # "off"
             => /\ \A a, b \in DOMAIN gen.yielded :
                      gen.yielded[a].idxs = gen.yielded[b].idxs => a = b
                /\ \A a \in DOMAIN gen.yielded :
                      /\ gen.yielded[a].idxs \in ProductIdxs
                      /\ \A k \in DOMAIN args.sources :
                            /\ gen.yielded[a].idxs[k] <= gen.yielded[a].round
                            /\ gen.yielded[a].value[k]
                                 = NextOf(args.sources[k], gen.yielded[a].idxs[k]).value
                      /\ \E k \in DOMAIN args.sources :
                            gen.yielded[a].idxs[k] = gen.yielded[a].round
                /\ SomeEmpty => gen.yielded = << >>
                /\ gen.pc = "returned" => AllFinite)
    /\ <>(\A t \in ProductIdxs : \E a \in DOMAIN gen.yielded : gen.yielded[a].idxs = t)
    /\ <>(AllFinite => gen.pc = "returned")

\* C35: the construction of a CFG terminates for every method over the
\* supported opcodes, a Goto to its own offset, conditional jumps with a
\* backward target and self- or mutually recursive InvokeStatic included: it
\* returns and never exhausts the call stack.
C35_BuildTerminates ==
    /\ [](construction.pc # "RecursionError")
    /\ <>(construction.pc = "returned")

RECURSIVE InOrderPass(_, _, _)
\* one pass of manystep that visits the dirty PCs in one fixed order
InOrderPass(acc, todo, processing) ==
    IF todo = {} THEN [raised |-> FALSE, acc |-> acc]
    ELSE LET pc == CHOOSE p \in todo : TRUE
             res == step(acc.per_inst[pc], bc)
         IN  IF res.raised THEN [raised |-> TRUE, acc |-> acc]
             ELSE InOrderPass(Consume(res.ys, acc, processing), todo \ {pc}, processing)

\* one turn of "for i in range(MAX_STEPS)" in that order, with the
\* classification and the return
InOrderTurn(run) ==
    IF run.apc # "loop" THEN run
    ELSE IF ~InRange(run.i)
    THEN [run EXCEPT !.apc = "done",
                     !.final = Classify(run.acc.final \cup {"*"}, TRUE,
                                        run.acc.has_self_loop)]
    ELSE IF run.acc.needswork = {}
    THEN [run EXCEPT !.apc = "done",
                     !.final = Classify(run.acc.final, FALSE, run.acc.has_self_loop)]
    ELSE LET pass == InOrderPass([run.acc EXCEPT !.needswork = {}],
                                 run.acc.needswork, run.acc.needswork)
         IN  IF pass.raised THEN [run EXCEPT !.apc = "raised"]
             ELSE [run EXCEPT !.acc = pass.acc, !.i = @ + 1]

RECURSIVE InOrderTurns(_, _)
\* n turns of the loop
InOrderTurns(run, n) ==
    IF n = 0 THEN run ELSE InOrderTurns(InOrderTurn(run), n - 1)

RECURSIVE InOrderRun(_)
\* abstract_interpretation when every pass visits its dirty PCs in that order
InOrderRun(run) ==
    IF run.apc # "loop" THEN run ELSE InOrderRun(InOrderTurns(run, 10))

\* the outcome set that run returns
InOrderFinal ==
    InOrderRun([apc |-> "loop", i |-> 0, final |-> {},
                acc |-> [per_inst |-> initialstate_from_method(entry.params, entry.K).per_inst,
                         needswork |-> initialstate_from_method(entry.params, entry.K).needswork,
                         final |-> {}, has_self_loop |-> FALSE, reentered |-> FALSE]])

\* C36: the outcome set abstract_interpretation returns is the same for every
\* order in which the dirty PCs of each pass are visited: it is the set that
\* one fixed order gives for the same opcodes, K and parameter types.
C36_OrderIndependent ==
    (apc = "done" /\ csteps = 0)
        => (InOrderFinal.apc = "done" /\ final = InOrderFinal.final)

====
